---- MODULE Spec2Model ----
(***************************************************************************)
(* Verification model of ooxmlsdk-build: the schema compiler (GenContext,  *)
(* the struct / deserializer / serializer / validator generators), the     *)
(* runtime contracts of the code they emit, and the package assembler.     *)
(*                                                                         *)
(* Byte strings that the code takes apart are sequences of tokens: a path  *)
(* is a sequence over "/", "." and name atoms, an element name is a record *)
(* [pfx, loc] standing for "pfx:loc" (pfx = "" for the bare form), a type  *)
(* name "first/pfx:loc" is a record [first, pfx, loc].                     *)
(***************************************************************************)
EXTENDS Integers, Sequences, FiniteSets, TLC

VARIABLES
    \* ---- package assembler (generated parts code) ----
    archive,        \* the zip archive being opened: [files, rels]
    loadStack,      \* active new_from_archive calls, innermost last
    loaded,         \* outcome of new(): NotLoaded, a part tree, or an error
    zip,            \* entries handed to the ZipWriter by the current save()
    entry_set,      \* save()'s path-dedup set
    saveStack,      \* pending save_zip calls, next one first
    saves,          \* number of save() calls started
    \* ---- schema compiler (GenContext::new, generate_with) ----
    genInput,       \* what data_dir and the cargo features hold
    genContext,     \* the GenContext returned by GenContext::new
    genOut,         \* per generator task: what it returned and wrote
    \* ---- generated codec at run time ----
    origin,         \* the instance that was serialized, and the text written
    reader,         \* the XmlReader of from_str: the events not yet read
    outcome,        \* what from_str returned
    \* ---- generated validate() at run time ----
    valCase,        \* the attribute (with its validators) and its value
    valResult       \* what validate() returned

pkgVars == <<archive, loadStack, loaded, zip, entry_set, saveStack, saves>>

genVars == <<genInput, genContext, genOut>>

codecVars == <<origin, reader, outcome>>

valVars == <<valCase, valResult>>

vars == <<pkgVars, genVars, codecVars, valVars>>

Idle == [kind |-> "idle"]

IdlePkg ==
    /\ archive = [files |-> {}, rels |-> <<>>]
    /\ loadStack = <<>>
    /\ loaded = [kind |-> "none"]
    /\ zip = <<>>
    /\ entry_set = {}
    /\ saveStack = <<>>
    /\ saves = 0

IdleGen == genInput = Idle /\ genContext = Idle /\ genOut = Idle

IdleCodec == origin = Idle /\ reader = Idle /\ outcome = Idle

IdleVal == valCase = Idle /\ valResult = Idle

NotLoaded == [kind |-> "none"]

NoArchive == [files |-> {}, rels |-> <<>>]

-----------------------------------------------------------------------------
(* common.rs: resolve_zip_file_path                                         *)

RECURSIVE SplitSlash(_)
SplitSlash(p) ==
    IF \A i \in 1..Len(p) : p[i] # "/"
    THEN <<p>>
    ELSE LET i == CHOOSE k \in 1..Len(p) :
                      p[k] = "/" /\ \A j \in 1..(k - 1) : p[j] # "/"
         IN  <<SubSeq(p, 1, i - 1)>> \o SplitSlash(SubSeq(p, i + 1, Len(p)))

RECURSIVE JoinSlash(_)
JoinSlash(cs) ==
    IF cs = <<>> THEN <<>>
    ELSE IF Len(cs) = 1 THEN cs[1]
    ELSE cs[1] \o <<"/">> \o JoinSlash(Tail(cs))

RECURSIVE ResolveComponents(_, _)
ResolveComponents(cs, stack) ==
    IF cs = <<>> THEN stack
    ELSE LET c == Head(cs)
         IN  ResolveComponents(Tail(cs),
                 IF c = <<>> \/ c = <<".">> THEN stack
                 ELSE IF c = <<".", ".">>
                      THEN IF stack = <<>> THEN stack
                           ELSE SubSeq(stack, 1, Len(stack) - 1)
                      ELSE Append(stack, c))

resolve_zip_file_path_without_pop(path) ==
    JoinSlash(SelectSeq(SplitSlash(path), LAMBDA c : c # <<>> /\ c # <<".">>))

resolve_zip_file_path(path) ==
    JoinSlash(ResolveComponents(SplitSlash(path), <<>>))

-----------------------------------------------------------------------------
(* Package assembler: the code gen_open_xml_parts emits for each part.      *)

MaxRels == 2        \* relationships in word/_rels/document.xml.rels
MaxSaves == 2       \* save() calls on one loaded package

ContentTypesPath == <<"[Content_Types]", ".xml">>
RootRelsPath == <<"_rels", "/", ".rels">>
MainRelsPath == <<"word", "/", "_rels", "/", "document", ".xml", ".rels">>

\* The part records the generator is run on (data/parts/*.json).
PartTable ==
    [ Pkg   |-> [ base |-> "OpenXmlPackage", general |-> <<>>,
                  extension |-> FALSE, root_element |-> FALSE,
                  relationship_type |-> "none",
                  children |-> <<
                    [ name |-> "Main", api_name |-> "main_document_part",
                      min_occurs_is_non_zero |-> TRUE,
                      max_occurs_great_than_one |-> FALSE,
                      is_data_part_reference |-> FALSE ],
                    [ name |-> "Thumb", api_name |-> "thumbnail_part",
                      min_occurs_is_non_zero |-> FALSE,
                      max_occurs_great_than_one |-> FALSE,
                      is_data_part_reference |-> FALSE ] >> ],
      Main  |-> [ base |-> "OpenXmlPart", general |-> <<"word">>,
                  extension |-> FALSE, root_element |-> TRUE,
                  relationship_type |-> "officeDocument",
                  children |-> <<
                    [ name |-> "Image", api_name |-> "image_parts",
                      min_occurs_is_non_zero |-> TRUE,
                      max_occurs_great_than_one |-> TRUE,
                      is_data_part_reference |-> FALSE ],
                    [ name |-> "Media", api_name |-> "media_data_parts",
                      min_occurs_is_non_zero |-> FALSE,
                      max_occurs_great_than_one |-> TRUE,
                      is_data_part_reference |-> TRUE ] >> ],
      Image |-> [ base |-> "OpenXmlPart", general |-> <<"media">>,
                  extension |-> TRUE, root_element |-> FALSE,
                  relationship_type |-> "image", children |-> <<>> ],
      Thumb |-> [ base |-> "OpenXmlPart", general |-> <<"docProps">>,
                  extension |-> TRUE, root_element |-> FALSE,
                  relationship_type |-> "thumbnail", children |-> <<>> ] ]

\* let path_str = if part.paths.general.is_empty() { "" } else { "{general}/" }
path_str(part) ==
    IF PartTable[part].general = <<>> THEN <<>>
    ELSE PartTable[part].general \o <<"/">>

\* The children that get a field and a relationship arm (data part
\* references are skipped).
PartChildren(part) ==
    SelectSeq(PartTable[part].children, LAMBDA c : ~c.is_data_part_reference)

ApiNames(part) == { PartChildren(part)[i].api_name : i \in DOMAIN PartChildren(part) }

EndsWithXml(path) == path # <<>> /\ path[Len(path)] = ".xml"

HasSlash(path) == \E i \in 1..Len(path) : path[i] = "/"

LastSlash(path) == CHOOSE i \in 1..Len(path) :
                       path[i] = "/" /\ \A j \in (i + 1)..Len(path) : path[j] # "/"

\* path.rsplit_once('/').1
AfterLastSlash(path) == SubSeq(path, LastSlash(path) + 1, Len(path))

\* The directory that contains `path`, with its trailing "/" ("" at the root).
DirOf(path) == IF HasSlash(path) THEN SubSeq(path, 1, LastSlash(path)) ELSE <<>>

\* The arm of `match relationship.r#type.as_str()` that a relationship takes:
\* the first declared child whose RELATIONSHIP constant equals the type.
ChildArm(part, rel) ==
    LET cs == PartChildren(part)
        hits == { i \in DOMAIN cs : PartTable[cs[i].name].relationship_type = rel.type }
    IN  IF hits = {} THEN 0
        ELSE CHOOSE i \in hits : \A j \in hits : i <= j

\* The declarations of new_from_archive up to the relationship loop: the
\* frame of the call, or the error it returns.
EnterPart(part, parent_path, path, r_id) ==
    LET p == PartTable[part]
        hasKids == p.children # <<>>
        child_parent_path == parent_path \o path_str(part)
        part_target_str == IF EndsWithXml(path) THEN AfterLastSlash(path) ELSE <<>>
        rels_path_key == resolve_zip_file_path(
            child_parent_path \o <<"_rels", "/">> \o part_target_str \o <<".rels">>)
        found == hasKids /\ rels_path_key \in archive.files
    IN  IF p.base = "OpenXmlPackage" /\ ContentTypesPath \notin archive.files
        THEN [ok |-> FALSE, err |-> "ZipError"]
        ELSE IF hasKids /\ EndsWithXml(path) /\ ~HasSlash(path)
        THEN [ok |-> FALSE, err |-> "CommonError"]
        ELSE IF (p.extension \/ p.root_element) /\ path \notin archive.files
        THEN [ok |-> FALSE, err |-> "ZipError"]
        ELSE [ok |-> TRUE,
              frame |-> [ part |-> part, parent_path |-> parent_path,
                          child_parent_path |-> child_parent_path,
                          inner_path |-> path, r_id |-> r_id,
                          rels_path |-> IF found THEN rels_path_key ELSE <<>>,
                          has_relationships |-> found,
                          relationships |-> IF found THEN archive.rels[rels_path_key]
                                            ELSE <<>>,
                          idx |-> 1,
                          target |-> <<>>,
                          kids |-> [a \in ApiNames(part) |-> <<>>] ]]

\* pub fn new(reader): Self::new_from_archive("", "", "", &file_path_set, &mut archive)
OpenPackage ==
    /\ loaded = NotLoaded
    /\ loadStack = <<>>
    /\ archive # NoArchive
    /\ LET e == EnterPart("Pkg", <<>>, <<>>, "")
       IN  IF e.ok
           THEN /\ loadStack' = <<e.frame>>
                /\ loaded' = [kind |-> "loading"]
           ELSE /\ loadStack' = <<>>
                /\ loaded' = [kind |-> "err", err |-> e.err]
    /\ UNCHANGED <<archive, zip, entry_set, saveStack, saves>>
    /\ UNCHANGED <<genVars, codecVars, valVars>>

\* One iteration of `for relationship in &relationships.relationship`.
LoadRelationship ==
    /\ loadStack # <<>>
    /\ LET n == Len(loadStack)
           f == loadStack[n]
       IN  /\ f.idx <= Len(f.relationships)
           /\ LET rel == f.relationships[f.idx]
                  arm == ChildArm(f.part, rel)
              IN  IF arm = 0
                  THEN /\ loadStack' = [loadStack EXCEPT ![n].idx = f.idx + 1]
                       /\ UNCHANGED loaded
                  ELSE LET child == PartChildren(f.part)[arm]
                           target_path == resolve_zip_file_path(
                               f.child_parent_path \o rel.target)
                           e == EnterPart(child.name, f.child_parent_path,
                                          target_path, rel.id)
                       IN  IF e.ok
                           THEN /\ loadStack' = Append(loadStack,
                                        [e.frame EXCEPT !.target = rel.target])
                                /\ UNCHANGED loaded
                           ELSE /\ loadStack' = <<>>
                                /\ loaded' = [kind |-> "err", err |-> e.err]
    /\ UNCHANGED <<archive, zip, entry_set, saveStack, saves>>
    /\ UNCHANGED <<genVars, codecVars, valVars>>

PartNode(f) ==
    [ part |-> f.part, inner_path |-> f.inner_path, r_id |-> f.r_id,
      rels_path |-> f.rels_path, has_relationships |-> f.has_relationships,
      relationships |-> f.relationships, kids |-> f.kids ]

\* field_unwrap_list: a single-occurrence child with min_occurs_is_non_zero
\* that no relationship supplied.
MissingChild(f) ==
    \E i \in DOMAIN PartChildren(f.part) :
        LET c == PartChildren(f.part)[i]
        IN  /\ ~c.max_occurs_great_than_one
            /\ c.min_occurs_is_non_zero
            /\ f.kids[c.api_name] = <<>>

\* The end of a new_from_archive call: unwrap, build Self, hand it to the
\* caller's arm (push onto the Vec, or overwrite the Option).
FinishPart ==
    /\ loadStack # <<>>
    /\ LET n == Len(loadStack)
           f == loadStack[n]
       IN  /\ f.idx > Len(f.relationships)
           /\ IF MissingChild(f)
              THEN /\ loadStack' = <<>>
                   /\ loaded' = [kind |-> "err", err |-> "CommonError"]
              ELSE IF n = 1
              THEN /\ loadStack' = <<>>
                   /\ loaded' = [kind |-> "ok", tree |-> PartNode(f)]
              ELSE LET g == loadStack[n - 1]
                       c == PartChildren(g.part)[ChildArm(g.part, g.relationships[g.idx])]
                       slot == IF c.max_occurs_great_than_one
                               THEN Append(g.kids[c.api_name], PartNode(f))
                               ELSE <<PartNode(f)>>
                   IN  /\ loadStack' = [SubSeq(loadStack, 1, n - 1) EXCEPT
                                          ![n - 1].kids[c.api_name] = slot,
                                          ![n - 1].idx = g.idx + 1]
                       /\ UNCHANGED loaded
    /\ UNCHANGED <<archive, zip, entry_set, saveStack, saves>>
    /\ UNCHANGED <<genVars, codecVars, valVars>>

\* zip.add_directory(path) guarded by the dedup set, as save_zip writes it.
AddDirectory(w, path) ==
    IF path # <<>> /\ path \notin w.entry_set
    THEN [ zip |-> Append(w.zip, [kind |-> "dir", path |-> path]),
           entry_set |-> w.entry_set \cup {path} ]
    ELSE w

\* zip.start_file(path) + write_all guarded by the dedup set.
StartFile(w, path) ==
    IF path \notin w.entry_set
    THEN [ zip |-> Append(w.zip, [kind |-> "file", path |-> path]),
           entry_set |-> w.entry_set \cup {path} ]
    ELSE w

\* Does save_zip of this part write the part's own content?  (CustomXml /
\* signature / data parts and parts with an extension write part_content,
\* parts bound to a root element write root_element; a package writes none.)
WritesContent(part) == PartTable[part].extension \/ PartTable[part].root_element

\* The writer_list of one save_zip call, in order.
SaveZipWrites(w, node, parent_path) ==
    LET part == node.part
        w1 == AddDirectory(w, resolve_zip_file_path(parent_path))
        w2 == AddDirectory(w1, resolve_zip_file_path(
                  parent_path \o PartTable[part].general \o <<"/">>))
        w3 == IF WritesContent(part) THEN StartFile(w2, node.inner_path) ELSE w2
        child_parent_path == parent_path \o path_str(part)
    IN  IF PartTable[part].children # <<>> /\ node.has_relationships
        THEN StartFile(
                 AddDirectory(w3, resolve_zip_file_path(child_parent_path \o <<"_rels">>)),
                 node.rels_path)
        ELSE w3

RECURSIVE Flatten(_)
Flatten(ss) == IF ss = <<>> THEN <<>> ELSE Head(ss) \o Flatten(Tail(ss))

\* children_writer_stmt_list: the save_zip calls on the children, in
\* declaration order, each with &child_parent_path.
ChildSaves(node, parent_path) ==
    LET cs == PartChildren(node.part)
        child_parent_path == parent_path \o path_str(node.part)
    IN  Flatten([ i \in DOMAIN cs |->
            [ k \in DOMAIN node.kids[cs[i].api_name] |->
                [ node |-> node.kids[cs[i].api_name][k],
                  parent_path |-> child_parent_path ] ] ])

\* pub fn save(&self, writer): a fresh entry_set and ZipWriter, the content
\* types entry, then self.save_zip("", ...).
Save ==
    /\ loaded.kind = "ok"
    /\ saveStack = <<>>
    /\ saves < MaxSaves
    /\ saves' = saves + 1
    /\ entry_set' = {}
    /\ zip' = << [kind |-> "file", path |-> ContentTypesPath] >>
    /\ saveStack' = << [node |-> loaded.tree, parent_path |-> <<>>] >>
    /\ UNCHANGED <<archive, loadStack, loaded>>
    /\ UNCHANGED <<genVars, codecVars, valVars>>

\* One save_zip call: its own entries, then its children (depth first).
SaveZip ==
    /\ saveStack # <<>>
    /\ LET c == Head(saveStack)
           w == SaveZipWrites([zip |-> zip, entry_set |-> entry_set],
                              c.node, c.parent_path)
       IN  /\ zip' = w.zip
           /\ entry_set' = w.entry_set
           /\ saveStack' = ChildSaves(c.node, c.parent_path) \o Tail(saveStack)
    /\ UNCHANGED <<archive, loadStack, loaded, saves>>
    /\ UNCHANGED <<genVars, codecVars, valVars>>

\* ---- the archives the package is opened from ----

MainTargets == { <<"word", "/", "document", ".xml">>,
                 <<"docs", "/", "document", ".xml">> }

ThumbTargets == { <<"docProps", "/", "thumbnail.jpeg">>, ContentTypesPath }

ImageTargets == { <<"media", "/", "image1.png">>,
                  <<".", ".", "/", "media", "/", "image1.png">>,
                  <<"media", "/", ".", "/", "image2.png">> }

ArchiveFiles ==
    { ContentTypesPath, RootRelsPath,
      <<"word", "/", "document", ".xml">>, <<"docs", "/", "document", ".xml">>,
      <<"word", "/", "media", "/", "image1.png">>, <<"media", "/", "image1.png">>,
      <<"docProps", "/", "thumbnail.jpeg">> }

RECURSIVE SeqsUpTo(_, _)
SeqsUpTo(S, n) ==
    IF n = 0 THEN { <<>> }
    ELSE LET shorter == SeqsUpTo(S, n - 1)
         IN  shorter \cup { Append(q, x) : q \in shorter, x \in S }

Rel(type, target, id) == [type |-> type, target |-> target, id |-> id]

Archives ==
    { [ files |-> ArchiveFiles \cup (IF hasMainRels THEN {MainRelsPath} ELSE {}),
        rels  |-> [ k \in {RootRelsPath, MainRelsPath} |->
                      IF k = RootRelsPath
                      THEN [ i \in DOMAIN rootTargets |->
                               Rel(IF rootTargets[i] \in MainTargets
                                   THEN "officeDocument" ELSE "thumbnail",
                                   rootTargets[i], "rId") ]
                      ELSE [ i \in DOMAIN imgs |-> Rel("image", imgs[i], "rId") ] ] ] :
        hasMainRels \in BOOLEAN,
        rootTargets \in SeqsUpTo(MainTargets \cup ThumbTargets, 2),
        imgs \in SeqsUpTo(ImageTargets, MaxRels) }

InitPkg ==
    /\ archive \in Archives
    /\ loadStack = <<>>
    /\ loaded = NotLoaded
    /\ zip = <<>>
    /\ entry_set = {}
    /\ saveStack = <<>>
    /\ saves = 0
    /\ IdleGen /\ IdleCodec /\ IdleVal

NextPkg ==
    \/ OpenPackage
    \/ LoadRelationship
    \/ FinishPart
    \/ Save
    \/ SaveZip

SpecPkg == InitPkg /\ [][NextPkg]_vars

-----------------------------------------------------------------------------
(* Claims about the package assembler.                                      *)

\* C7: in every running new_from_archive call of a child part, the path the
\* child is opened at is the relationship Target resolved against the
\* directory that contains the part holding the relationship, with empty
\* and "." segments dropped and ".." removing the preceding segment.
C7_TargetResolvedAgainstPartDirectory ==
    \A i \in 2..Len(loadStack) :
        loadStack[i].inner_path =
            resolve_zip_file_path(DirOf(loadStack[i - 1].inner_path)
                                  \o loadStack[i].target)

\* C8: during one save no archive path (directory, part file, .rels file,
\* [Content_Types].xml) is handed to the zip writer twice.
C8_NoDuplicateZipEntries ==
    \A i, j \in DOMAIN zip : i # j => zip[i].path # zip[j].path

-----------------------------------------------------------------------------
(* models.rs: the schema description records and their helpers.             *)
(* A type name "first/pfx:loc" is [first, pfx, loc]; "first/" (an abstract  *)
(* base) has pfx = loc = "".  A tag "pfx:loc" is [pfx, loc], the bare tag   *)
(* "loc" is [pfx |-> "", loc].                                              *)

TypeName(first, pfx, loc) == [first |-> first, pfx |-> pfx, loc |-> loc]

\* format!("{type_base_class}/")
BaseTypeName(first) == TypeName(first, "", "")

\* name.split_once('/'): (first, "pfx:loc")
split_name(name) == <<name.first, [pfx |-> name.pfx, loc |-> name.loc]>>

\* split_name().1.split_once(':'): (pfx, loc)
split_last_name(name) == <<name.pfx, name.loc>>

\* The two literals every generated matcher is given for a type or child:
\* b"pfx:loc" and b"loc".
PrefixedTag(name) == split_name(name)[2]

BareTag(name) == [pfx |-> "", loc |-> split_last_name(name)[2]]

CompositeClasses ==
    {"OpenXmlCompositeElement", "CustomXmlElement", "OpenXmlPartRootElement", "SdtElement"}

is_one_sequence_flatten(t) ==
    /\ (t.composite_type = "OneSequence" \/ t.particle.kind = "Sequence")
    /\ \A i \in DOMAIN t.particle.items :
           t.particle.items[i].kind = "" /\ t.particle.items[i].items = <<>>

\* child_map(): a HashMap keyed by child.name (a later duplicate replaces
\* an earlier one).
InChildMap(t, name) == \E i \in DOMAIN t.children : t.children[i].name = name

child_map(t, name) ==
    t.children[CHOOSE i \in DOMAIN t.children :
                   /\ t.children[i].name = name
                   /\ \A j \in DOMAIN t.children : t.children[j].name = name => j <= i]

is_validator_required(attr) ==
    \E i \in DOMAIN attr.validators : attr.validators[i].name = "RequiredValidator"

\* OpenXmlSchemaTypeChild::as_property_name_str: the property name, or the
\* "pfx:loc" part of the child name when there is none.
as_property_name_str(child) ==
    IF child.property_name = "" THEN split_name(child.name)[2]
    ELSE [pfx |-> "", loc |-> child.property_name]

\* OpenXmlSchemaTypeParticle::as_occurrence.
as_occurrence(p) ==
    IF p.occurs = <<>> THEN "Required"
    ELSE IF p.occurs[1].min = 0 /\ p.occurs[1].max = 1 THEN "Optional"
    ELSE "Repeated"

\* The lookup tables (HashMap by name) over a list of records.
HasNamed(list, name) == \E i \in DOMAIN list : list[i].name = name

Named(list, name) ==
    list[CHOOSE i \in DOMAIN list :
             /\ list[i].name = name
             /\ \A j \in DOMAIN list : list[j].name = name => j <= i]

\* All the types of a list of schemas, in file order.
RECURSIVE AllTypes(_)
AllTypes(schemas) ==
    IF schemas = <<>> THEN <<>> ELSE Head(schemas).types \o AllTypes(Tail(schemas))

Range(q) == { q[i] : i \in DOMAIN q }

-----------------------------------------------------------------------------
(* generator/context.rs                                                     *)

OptionalVersions ==
    {"Microsoft365", "Office2021", "Office2019", "Office2016", "Office2013", "Office2010"}

\* check_office_version that takes every version tag for enabled.
check_office_version_all(features, version) == TRUE

\* check_office_version under the cargo features `features`.
check_office_version(features, version) ==
    IF version \in OptionalVersions THEN version \in features
    ELSE version \in {"Office2007", ""}

\* HashSet::insert(name): true iff the set did not hold the name.
Inserted_always(set, name) == TRUE

Inserted(set, name) == name \notin set

\* gen_part_name_set: acc is [ok, set]; ok turns FALSE where the code
\* unwraps a failed lookup.
RECURSIVE gen_part_name_set(_, _, _)
RECURSIVE VisitPartChildren(_, _, _)
gen_part_name_set(acc, part_name, parts) ==
    IF ~acc.ok \/ part_name \in acc.set THEN acc
    ELSE IF ~HasNamed(parts, part_name)
         THEN [ok |-> FALSE, set |-> acc.set \cup {part_name}]
         ELSE VisitPartChildren([ok |-> TRUE, set |-> acc.set \cup {part_name}],
                                Named(parts, part_name).children, parts)

VisitPartChildren(acc, children, parts) ==
    IF children = <<>> THEN acc
    ELSE VisitPartChildren(
             IF Head(children).is_data_part_reference THEN acc
             ELSE gen_part_name_set(acc, Head(children).name, parts),
             Tail(children), parts)

\* gen_type_name_set: acc is [ok, set]; ok turns FALSE when try_get fails.
RECURSIVE gen_type_name_set(_, _, _)
RECURSIVE VisitTypeChildren(_, _, _)
gen_type_name_set(acc, type_name, types) ==
    IF ~acc.ok \/ type_name \in acc.set THEN acc
    ELSE IF ~HasNamed(types, type_name)
         THEN [ok |-> FALSE, set |-> acc.set \cup {type_name}]
         ELSE LET schema_type == Named(types, type_name)
                  withBase == IF schema_type.is_derived
                              THEN {type_name, BaseTypeName(split_name(type_name)[1])}
                              ELSE {type_name}
              IN  VisitTypeChildren([ok |-> TRUE, set |-> acc.set \cup withBase],
                                    schema_type.children, types)

VisitTypeChildren(acc, children, types) ==
    IF children = <<>> THEN acc
    ELSE VisitTypeChildren(gen_type_name_set(acc, Head(children).name, types),
                           Tail(children), types)

\* The package parts the selected document kinds start from (cfg features
\* docx, xlsx, pptx, in this order).
RootParts(kinds) ==
    (IF "docx" \in kinds THEN <<"WordprocessingDocument">> ELSE <<>>)
    \o (IF "xlsx" \in kinds THEN <<"SpreadsheetDocument">> ELSE <<>>)
    \o (IF "pptx" \in kinds THEN <<"PresentationDocument">> ELSE <<>>)

RECURSIVE PartNameSetOf(_, _, _)
PartNameSetOf(acc, roots, parts) ==
    IF roots = <<>> THEN acc
    ELSE PartNameSetOf(gen_part_name_set(acc, Head(roots), parts), Tail(roots), parts)

\* part_type_name_map: part_class_name -> type name, from the typed schemas.
Bound(input) == SelectSeq(input.typed_schemas, LAMBDA ts : ts.part_class_name # "")

HasBoundType(input, part_name) ==
    \E i \in DOMAIN Bound(input) : Bound(input)[i].part_class_name = part_name

BoundType(input, part_name) ==
    LET b == Bound(input)
    IN  b[CHOOSE i \in DOMAIN b :
              /\ b[i].part_class_name = part_name
              /\ \A j \in DOMAIN b : b[j].part_class_name = part_name => j <= i].name

\* check_office_version(&x.version) && check_office_version(type_version)
PartVersionOk(input, part_name, part_version) ==
    /\ check_office_version(input.features, part_version)
    /\ HasBoundType(input, part_name) =>
           check_office_version(input.features,
               Named(AllTypes(input.schemas), BoundType(input, part_name)).version)

\* A bound type whose version cannot be looked up (try_get(..).unwrap()).
BoundTypeUnknown(input, part_name) ==
    /\ HasBoundType(input, part_name)
    /\ ~HasNamed(AllTypes(input.schemas), BoundType(input, part_name))

\* OpenXmlSchemaTypeParticle::check_particle_version
RECURSIVE check_particle_version(_, _)
check_particle_version(features, particle) ==
    LET kept == SelectSeq(particle.items,
                    LAMBDA p : check_office_version(features, p.initial_version))
    IN  [particle EXCEPT !.items =
            [i \in DOMAIN kept |-> check_particle_version(features, kept[i])]]

\* lines 227-250: the version filter of one schema.
FilterSchema(input, schema) ==
    LET f == input.features
        all == AllTypes(input.schemas)
        Ok(v) == check_office_version(f, v)
        enums1 == [i \in DOMAIN schema.enums |->
                     [schema.enums[i] EXCEPT !.facets =
                         SelectSeq(schema.enums[i].facets, LAMBDA x : Ok(x.version))]]
        types1 == [i \in DOMAIN schema.types |->
                     [schema.types[i] EXCEPT
                        !.attributes = SelectSeq(schema.types[i].attributes,
                                                 LAMBDA x : Ok(x.version)),
                        !.children = SelectSeq(schema.types[i].children,
                                               LAMBDA x : Ok(Named(all, x.name).version)),
                        !.particle = check_particle_version(f, schema.types[i].particle)]]
    IN  [schema EXCEPT !.enums = SelectSeq(enums1, LAMBDA x : Ok(x.version)),
                       !.types = SelectSeq(types1, LAMBDA x : Ok(x.version))]

\* GenContext::new: the context it returns, or the panic of one of its
\* unwraps.
GenContext_new(input) ==
    LET f == input.features
        all == AllTypes(input.schemas)
        pns == PartNameSetOf([ok |-> TRUE, set |-> {}], RootParts(input.kinds), input.parts)
        parts1 == SelectSeq(input.parts,
                      LAMBDA x : x.name \in pns.set
                                 /\ PartVersionOk(input, x.name, x.version))
        parts2 == [i \in DOMAIN parts1 |->
                     [parts1[i] EXCEPT !.children =
                         SelectSeq(parts1[i].children,
                             LAMBDA x : x.is_data_part_reference
                                        \/ PartVersionOk(input, x.name,
                                               Named(input.parts, x.name).version))]]
        rootBearing == SelectSeq(parts2, LAMBDA x : x.base = "OpenXmlPart" /\ x.root # "")
        tns == [i \in DOMAIN rootBearing |->
                  IF HasBoundType(input, rootBearing[i].name)
                  THEN gen_type_name_set([ok |-> TRUE, set |-> {}],
                                         BoundType(input, rootBearing[i].name), all)
                  ELSE [ok |-> FALSE, set |-> {}]]
        panics ==
            \/ ~pns.ok
            \/ \E i \in DOMAIN input.parts :
                   /\ input.parts[i].name \in pns.set
                   /\ BoundTypeUnknown(input, input.parts[i].name)
            \/ \E i \in DOMAIN parts1 : \E j \in DOMAIN parts1[i].children :
                   LET x == parts1[i].children[j]
                   IN  /\ ~x.is_data_part_reference
                       /\ (~HasNamed(input.parts, x.name) \/ BoundTypeUnknown(input, x.name))
            \/ \E i \in DOMAIN tns : ~tns[i].ok
            \/ \E i \in DOMAIN all : \E j \in DOMAIN all[i].children :
                   ~HasNamed(all, all[i].children[j].name)
            \/ \E i \in DOMAIN input.schemas :
                   ~\E n \in DOMAIN input.namespaces :
                       input.namespaces[n].uri = input.schemas[i].target_namespace
        schemas1 == [i \in DOMAIN input.schemas |-> FilterSchema(input, input.schemas[i])]
        NsVersion(uri) ==
            input.namespaces[CHOOSE n \in DOMAIN input.namespaces :
                /\ input.namespaces[n].uri = uri
                /\ \A m \in DOMAIN input.namespaces :
                       input.namespaces[m].uri = uri => m <= n].version
    IN  IF panics THEN [kind |-> "panic"]
        ELSE [kind |-> "ok",
              parts |-> parts2,
              schemas |-> SelectSeq(schemas1,
                              LAMBDA x : check_office_version(f, NsVersion(x.target_namespace))),
              namespaces |-> input.namespaces,
              typed_schemas |-> input.typed_schemas]

-----------------------------------------------------------------------------
(* The generators.  Each returns, for one schema type, what the code it     *)
(* emits consists of ([ok |-> TRUE, ...]), or the failure of the generator  *)
(* ([ok |-> FALSE, err]).  `types` is gen_context.type_name_type_map.       *)

DrawingNamespaces ==
    {"http://schemas.openxmlformats.org/drawingml/2006/main",
     "http://schemas.openxmlformats.org/drawingml/2006/picture"}

GenErr(e) == [ok |-> FALSE, err |-> e]

\* !part.is_empty() || base_class == "OpenXmlPartRootElement" || drawingml
CarriesXmlns(schema, t) ==
    \/ t.part # ""
    \/ t.base_class = "OpenXmlPartRootElement"
    \/ schema.target_namespace \in DrawingNamespaces

\* The field a child or an attribute is stored in.
Field(kind, name, occ, ref) == [kind |-> kind, name |-> name, occ |-> occ, ref |-> ref]

NoRef == TypeName("", "", "")

XmlnsFields ==
    << Field("xmlns", [pfx |-> "", loc |-> "xmlns"], "Optional", NoRef),
       Field("xmlns_map", [pfx |-> "", loc |-> "xmlns_map"], "Map", NoRef),
       Field("mc_ignorable", [pfx |-> "", loc |-> "mc_ignorable"], "Optional", NoRef) >>

XmlContentField == Field("xml_content", [pfx |-> "", loc |-> "xml_content"], "Optional", NoRef)

ChildrenField == Field("children", [pfx |-> "", loc |-> "children"], "Repeated", NoRef)

\* gen_attr: `pub name: T` under a RequiredValidator, `Option<T>` otherwise.
AttrFields(attributes) ==
    [i \in DOMAIN attributes |->
        Field("attr", attributes[i].q_name,
              IF is_validator_required(attributes[i]) THEN "Required" ELSE "Optional",
              NoRef)]

\* Is every particle item found in child_map and every child in the type map?
ItemsResolve(t, types) ==
    \A i \in DOMAIN t.particle.items :
        /\ InChildMap(t, t.particle.items[i].name)
        /\ HasNamed(types, child_map(t, t.particle.items[i].name).name)

ChildrenResolve(t, types) ==
    \A i \in DOMAIN t.children : HasNamed(types, t.children[i].name)

\* gen_one_sequence_fields: one field per particle item.
gen_one_sequence_fields(t) ==
    [i \in DOMAIN t.particle.items |->
        LET child == child_map(t, t.particle.items[i].name)
        IN  Field("child", as_property_name_str(child),
                  as_occurrence(t.particle.items[i]), child.name)]

\* gen_children: (field_option, enum_option), the `children` field and the
\* variants of the ChildChoice enum (one per child, named by the child).
gen_children(children) == IF children = <<>> THEN <<>> ELSE <<ChildrenField>>

gen_children_enum(children) == [i \in DOMAIN children |-> children[i].name]

\* The struct and the ChildChoice enum gen_schema_type emits.
StructItem(fields, variants) == [ok |-> TRUE, fields |-> fields, variants |-> variants]

\* open_xml_schema.rs gen_schema_type: the fields of the struct.
gen_schema_type(schema, t, types) ==
    IF t.base_class = "OpenXmlLeafTextElement"
    THEN StructItem(AttrFields(t.attributes) \o <<XmlContentField>>, <<>>)
    ELSE IF t.base_class = "OpenXmlLeafElement"
    THEN StructItem(AttrFields(t.attributes), <<>>)
    ELSE IF t.base_class \in CompositeClasses
    THEN LET head == (IF CarriesXmlns(schema, t) THEN XmlnsFields ELSE <<>>)
                     \o AttrFields(t.attributes)
         IN  IF is_one_sequence_flatten(t)
             THEN IF ItemsResolve(t, types)
                  THEN StructItem(head \o gen_one_sequence_fields(t), <<>>)
                  ELSE GenErr("HashMapExpectedSomeError")
             ELSE IF ChildrenResolve(t, types)
                  THEN StructItem(head \o gen_children(t.children),
                                  gen_children_enum(t.children))
                  ELSE GenErr("HashMapExpectedSomeError")
    ELSE IF t.is_derived
    THEN IF ~HasNamed(types, BaseTypeName(split_name(t.name)[1]))
         THEN GenErr("HashMapExpectedSomeError")
         ELSE LET base == Named(types, BaseTypeName(split_name(t.name)[1]))
                  head == AttrFields(t.attributes) \o AttrFields(base.attributes)
                  tail == IF t.children = <<>> /\ base.base_class = "OpenXmlLeafTextElement"
                          THEN <<XmlContentField>> ELSE <<>>
              IN  IF is_one_sequence_flatten(t) /\ base.composite_type = "OneSequence"
                  THEN IF ItemsResolve(t, types)
                       THEN StructItem(head \o gen_one_sequence_fields(t) \o tail, <<>>)
                       ELSE GenErr("HashMapExpectedSomeError")
                  ELSE IF ChildrenResolve(t, types)
                       THEN StructItem(head \o gen_children(t.children) \o tail,
                                       gen_children_enum(t.children))
                       ELSE GenErr("HashMapExpectedSomeError")
    ELSE GenErr("panic")

\* gen_one_sequence_match_arm / gen_child_match_arm over a list of children:
\* arm i matches b"pfx:loc", and also b"loc" if
\* loop_children_suffix_match_set.insert(loc) returned true, that is if no
\* earlier arm has the same local name.  `slot` is the variable the arm
\* assigns, `occ` how ("Repeated" pushes, the others overwrite).
Arm_bare_always(children, i, slot, occ) ==
    [ tags  |-> {PrefixedTag(children[i].name), BareTag(children[i].name)},
      child |-> children[i].name,
      slot  |-> slot,
      occ   |-> occ ]

Arm(children, i, slot, occ) ==
    [ tags  |-> {PrefixedTag(children[i].name)}
                \cup (IF \E j \in 1..(i - 1) :
                            split_last_name(children[j].name)[2]
                                = split_last_name(children[i].name)[2]
                      THEN {}
                      ELSE {BareTag(children[i].name)}),
      child |-> children[i].name,
      slot  |-> slot,
      occ   |-> occ ]

gen_one_sequence_match_arms(t) ==
    LET cs == [i \in DOMAIN t.particle.items |-> child_map(t, t.particle.items[i].name)]
    IN  [i \in DOMAIN cs |->
            Arm(cs, i, as_property_name_str(cs[i]), as_occurrence(t.particle.items[i]))]

gen_child_match_arms(t) ==
    [i \in DOMAIN t.children |-> Arm(t.children, i, ChildrenField.name, "Repeated")]

\* field_unwrap_list entries of a list of fields: the Required ones.
Unwraps(fields) ==
    LET req == SelectSeq(fields, LAMBDA f : f.occ = "Required")
    IN  [i \in DOMAIN req |-> req[i].name]

DeserializerPlan(t, xmlns, attributes, childFields, arms, text) ==
    [ ok |-> TRUE,
      class_name |-> t.class_name,
      prefixed |-> PrefixedTag(t.name),
      bare |-> BareTag(t.name),
      xmlns |-> xmlns,
      attributes |-> attributes,
      fields |-> (IF xmlns THEN XmlnsFields ELSE <<>>) \o childFields
                 \o AttrFields(attributes),
      arms |-> arms,
      text |-> text,
      unwraps |-> Unwraps(SelectSeq(childFields, LAMBDA f : f.kind = "child"))
                  \o Unwraps(AttrFields(attributes)) ]

\* deserializer.rs gen_deserializers, for one non-abstract type.
gen_deserializers(schema, t, types) ==
    IF t.base_class = "OpenXmlLeafTextElement"
    THEN DeserializerPlan(t, FALSE, t.attributes, <<XmlContentField>>, <<>>, TRUE)
    ELSE IF t.base_class = "OpenXmlLeafElement"
    THEN DeserializerPlan(t, FALSE, t.attributes, <<>>, <<>>, FALSE)
    ELSE IF t.base_class \in CompositeClasses
    THEN IF is_one_sequence_flatten(t)
         THEN IF ItemsResolve(t, types)
              THEN DeserializerPlan(t, CarriesXmlns(schema, t), t.attributes,
                       gen_one_sequence_fields(t), gen_one_sequence_match_arms(t), FALSE)
              ELSE GenErr("HashMapExpectedSomeError")
         ELSE IF ChildrenResolve(t, types)
              THEN DeserializerPlan(t, CarriesXmlns(schema, t), t.attributes,
                       gen_children(t.children), gen_child_match_arms(t), FALSE)
              ELSE GenErr("HashMapExpectedSomeError")
    ELSE IF t.is_derived
    THEN IF ~HasNamed(types, BaseTypeName(split_name(t.name)[1]))
         THEN GenErr("HashMapExpectedSomeError")
         ELSE LET base == Named(types, BaseTypeName(split_name(t.name)[1]))
                  attributes == t.attributes \o base.attributes
                  text == t.children = <<>> /\ base.base_class = "OpenXmlLeafTextElement"
              IN  IF is_one_sequence_flatten(t) /\ base.composite_type = "OneSequence"
                  THEN IF ItemsResolve(t, types)
                       THEN DeserializerPlan(t, FALSE, attributes,
                                gen_one_sequence_fields(t),
                                gen_one_sequence_match_arms(t), text)
                       ELSE GenErr("HashMapExpectedSomeError")
                  ELSE IF ChildrenResolve(t, types)
                       THEN DeserializerPlan(t, FALSE, attributes,
                                IF t.children # <<>> THEN <<ChildrenField>>
                                ELSE IF text THEN <<XmlContentField>> ELSE <<>>,
                                gen_child_match_arms(t), text)
                       ELSE GenErr("HashMapExpectedSomeError")
    ELSE GenErr("panic")

\* serializer.rs 169-194 (and 312-337): which statement writes the field of
\* a particle item.
child_stmt_kind(p) ==
    IF p.occurs = <<>> THEN "Required"
    ELSE IF p.occurs[1].min = 0 /\ p.occurs[1].max = 1 THEN "Optional"
    ELSE "Repeated"

\* serializer.rs 157-195: the child_stmt_list of a flattened type.
child_stmt_list(t) ==
    [i \in DOMAIN t.particle.items |->
        LET child == child_map(t, t.particle.items[i].name)
        IN  Field("child", as_property_name_str(child),
                  child_stmt_kind(t.particle.items[i]), child.name)]

ItemsInChildMap(t) ==
    \A i \in DOMAIN t.particle.items : InChildMap(t, t.particle.items[i].name)

SerializerPlan(schema, schema_namespace, t, attributes, body, childFields) ==
    [ ok |-> TRUE,
      xmlns_uri_str |-> schema_namespace.uri,
      xmlns_prefix_str |-> schema_namespace.prefix,
      header |-> t.part # "" \/ t.base_class = "OpenXmlPartRootElement",
      xmlns |-> \/ t.part # ""
                \/ t.base_class = "OpenXmlPartRootElement"
                \/ (t.base_class \in CompositeClasses
                    /\ schema.target_namespace \in DrawingNamespaces),
      last_name_prefix |-> split_last_name(t.name)[1],
      prefixed |-> PrefixedTag(t.name),
      bare |-> BareTag(t.name),
      attributes |-> attributes,
      body |-> body,
      fields |-> childFields ]

\* serializer.rs gen_serializer, for one non-abstract type.
gen_serializer(schema, schema_namespace, t, types) ==
    IF t.base_class = "OpenXmlLeafTextElement"
    THEN SerializerPlan(schema, schema_namespace, t, t.attributes, "text", <<XmlContentField>>)
    ELSE IF t.base_class = "OpenXmlLeafElement"
    THEN SerializerPlan(schema, schema_namespace, t, t.attributes, "selfclose", <<>>)
    ELSE IF t.base_class \in CompositeClasses
    THEN IF t.children = <<>>
         THEN SerializerPlan(schema, schema_namespace, t, t.attributes, "selfclose", <<>>)
         ELSE IF is_one_sequence_flatten(t)
         THEN IF ItemsInChildMap(t)
              THEN SerializerPlan(schema, schema_namespace, t, t.attributes, "flat", child_stmt_list(t))
              ELSE GenErr("panic")
         ELSE SerializerPlan(schema, schema_namespace, t, t.attributes, "union", <<ChildrenField>>)
    ELSE IF t.is_derived
    THEN IF ~HasNamed(types, BaseTypeName(split_name(t.name)[1]))
         THEN GenErr("panic")
         ELSE LET base == Named(types, BaseTypeName(split_name(t.name)[1]))
                  attributes == t.attributes \o base.attributes
              IN  IF t.children = <<>> /\ base.children = <<>>
                  THEN IF base.base_class = "OpenXmlLeafTextElement"
                       THEN SerializerPlan(schema, schema_namespace, t, attributes, "text",
                                           <<XmlContentField>>)
                       ELSE SerializerPlan(schema, schema_namespace, t, attributes, "selfclose", <<>>)
                  ELSE IF is_one_sequence_flatten(t) /\ base.composite_type = "OneSequence"
                  THEN IF ItemsInChildMap(t)
                       THEN SerializerPlan(schema, schema_namespace, t, attributes, "flat",
                                           child_stmt_list(t))
                       ELSE GenErr("panic")
                  ELSE SerializerPlan(schema, schema_namespace, t, attributes, "union", <<ChildrenField>>)
    ELSE GenErr("panic")

\* validator.rs 55-100 (and 162-207): the children statements of a
\* flattened type.
children_validator_stmt_list(t) ==
    [i \in DOMAIN t.particle.items |->
        LET child == child_map(t, t.particle.items[i].name)
        IN  Field("child", as_property_name_str(child),
                  as_occurrence(t.particle.items[i]), child.name)]

\* validator.rs gen_validators, for one non-abstract type.
gen_validators(schema, t, types) ==
    IF t.base_class \in {"OpenXmlLeafTextElement", "OpenXmlLeafElement"}
    THEN [ok |-> TRUE, attributes |-> t.attributes, fields |-> <<>>]
    ELSE IF t.base_class \in CompositeClasses
    THEN IF is_one_sequence_flatten(t)
         THEN IF ItemsInChildMap(t)
              THEN [ok |-> TRUE, attributes |-> t.attributes,
                    fields |-> children_validator_stmt_list(t)]
              ELSE GenErr("panic")
         ELSE [ok |-> TRUE, attributes |-> t.attributes,
               fields |-> gen_children(t.children)]
    ELSE IF t.is_derived
    THEN IF ~HasNamed(types, BaseTypeName(split_name(t.name)[1]))
         THEN GenErr("panic")
         ELSE LET base == Named(types, BaseTypeName(split_name(t.name)[1]))
                  attributes == t.attributes \o base.attributes
              IN  IF is_one_sequence_flatten(t) /\ base.composite_type = "OneSequence"
                  THEN IF ItemsInChildMap(t)
                       THEN [ok |-> TRUE, attributes |-> attributes,
                             fields |-> children_validator_stmt_list(t)]
                       ELSE GenErr("panic")
                  ELSE [ok |-> TRUE, attributes |-> attributes,
                        fields |-> gen_children(t.children)]
    ELSE GenErr("panic")

-----------------------------------------------------------------------------
(* lib.rs: generate_with and its five tasks.                                *)

Tasks == {"schemas", "deserializers", "serializers", "parts", "validators"}

\* gen_context.type_name_type_map as generate_with fills it.
TypeMap(ctx) == AllTypes(ctx.schemas)

\* gen_context.uri_namespace_map[uri]
uri_namespace_map(ctx, uri) ==
    ctx.namespaces[CHOOSE n \in DOMAIN ctx.namespaces :
        /\ ctx.namespaces[n].uri = uri
        /\ \A m \in DOMAIN ctx.namespaces : ctx.namespaces[m].uri = uri => m <= n]

\* What one generator makes of one schema module: an entry per type it
\* handles (gen_open_xml_schemas handles every type, the others skip the
\* abstract ones).
ModuleOf(task, schema, ctx) ==
    LET types == TypeMap(ctx)
        schema_namespace == uri_namespace_map(ctx, schema.target_namespace)
        ts == IF task = "schemas" THEN schema.types
              ELSE SelectSeq(schema.types, LAMBDA t : ~t.is_abstract)
    IN  [ module |-> schema.module_name,
          items  |-> [i \in DOMAIN ts |->
                        [ name |-> ts[i].name,
                          out  |-> CASE task = "schemas" ->
                                            gen_schema_type(schema, ts[i], types)
                                     [] task = "deserializers" ->
                                            gen_deserializers(schema, ts[i], types)
                                     [] task = "serializers" ->
                                            gen_serializer(schema, schema_namespace, ts[i], types)
                                     [] OTHER ->
                                            gen_validators(schema, ts[i], types) ]] ]

\* part_name_type_name_map as generate_with fills it: the typed schemas
\* first, then every surviving type with a `part`.
HasRootType(ctx, part_name) ==
    \/ \E i \in DOMAIN ctx.typed_schemas : ctx.typed_schemas[i].part_class_name = part_name
    \/ \E i \in DOMAIN TypeMap(ctx) : TypeMap(ctx)[i].part = part_name

RootTypeName(ctx, part_name) ==
    LET byPart == SelectSeq(TypeMap(ctx), LAMBDA t : t.part = part_name)
        typed == SelectSeq(ctx.typed_schemas, LAMBDA ts : ts.part_class_name = part_name)
    IN  IF byPart # <<>> THEN byPart[Len(byPart)].name ELSE typed[Len(typed)].name

\* gen_open_xml_parts / gen_struct_fn: fails when the root element type of
\* the part is not in type_name_type_map.
gen_open_xml_parts(part, ctx) ==
    IF /\ part.extension = ""
       /\ HasRootType(ctx, part.name)
       /\ ~HasNamed(TypeMap(ctx), RootTypeName(ctx, part.name))
    THEN GenErr("HashMapExpectedSomeError")
    ELSE [ok |-> TRUE, children |-> part.children]

ModuleOfPart(part, ctx) ==
    [ module |-> part.name,
      items  |-> << [name |-> part.name, out |-> gen_open_xml_parts(part, ctx)] >> ]

ModuleOk(m) == \A i \in DOMAIN m.items : m.items[i].out.ok

ModulePanics(m) == \E i \in DOMAIN m.items :
                       ~m.items[i].out.ok /\ m.items[i].out.err = "panic"

\* write_schemas / write_deserializers / write_serializers / write_parts /
\* write_validators: the modules are generated in order and each one is
\* written to its file as soon as it is generated (generate_pub_item_mod);
\* the first failing module ends the task; mod.rs is written last.
\* write_schemas copies the included files (common/mod.rs, simple_type.rs,
\* opc_*.rs) before it generates anything.
WriteTask(task, ctx) ==
    LET mods == IF task = "parts"
                THEN [i \in DOMAIN ctx.parts |-> ModuleOfPart(ctx.parts[i], ctx)]
                ELSE [i \in DOMAIN ctx.schemas |->
                         ModuleOf(task, ctx.schemas[i], ctx)]
        bad == { i \in DOMAIN mods : ~ModuleOk(mods[i]) }
    IN  IF bad = {}
        THEN [status |-> "ok", files |-> mods, mod_rs |-> TRUE,
              includes |-> task = "schemas"]
        ELSE LET k == CHOOSE i \in bad : \A j \in bad : i <= j
             IN  [ status |-> IF ModulePanics(mods[k]) THEN "panic" ELSE "err",
                   files  |-> SubSeq(mods, 1, k - 1),
                   mod_rs |-> FALSE,
                   includes |-> task = "schemas" ]

Todo == [status |-> "todo", files |-> <<>>, mod_rs |-> FALSE, includes |-> FALSE]

\* let mut gen_context = GenContext::new(data_dir);
NewGenContext ==
    /\ genInput # Idle
    /\ genContext = Idle
    /\ genContext' = GenContext_new(genInput)
    /\ genOut' = [t \in Tasks |-> Todo]
    /\ UNCHANGED <<genInput, pkgVars, codecVars, valVars>>

TaskReady(task) ==
    /\ genContext # Idle
    /\ genContext.kind = "ok"
    /\ genOut[task].status = "todo"

\* write_schemas(&gen_context, out_dir): one of the five tasks generate_with runs.
WriteSchemas ==
    /\ TaskReady("schemas")
    /\ genOut' = [genOut EXCEPT !["schemas"] = WriteTask("schemas", genContext)]
    /\ UNCHANGED <<genInput, genContext, pkgVars, codecVars, valVars>>

\* write_deserializers(&gen_context, out_dir): one of the five tasks generate_with runs.
WriteDeserializers ==
    /\ TaskReady("deserializers")
    /\ genOut' = [genOut EXCEPT !["deserializers"] = WriteTask("deserializers", genContext)]
    /\ UNCHANGED <<genInput, genContext, pkgVars, codecVars, valVars>>

\* write_serializers(&gen_context, out_dir): one of the five tasks generate_with runs.
WriteSerializers ==
    /\ TaskReady("serializers")
    /\ genOut' = [genOut EXCEPT !["serializers"] = WriteTask("serializers", genContext)]
    /\ UNCHANGED <<genInput, genContext, pkgVars, codecVars, valVars>>

\* write_parts(&gen_context, out_dir): one of the five tasks generate_with runs.
WriteParts ==
    /\ TaskReady("parts")
    /\ genOut' = [genOut EXCEPT !["parts"] = WriteTask("parts", genContext)]
    /\ UNCHANGED <<genInput, genContext, pkgVars, codecVars, valVars>>

\* write_validators(&gen_context, out_dir): one of the five tasks generate_with runs.
WriteValidators ==
    /\ TaskReady("validators")
    /\ genOut' = [genOut EXCEPT !["validators"] = WriteTask("validators", genContext)]
    /\ UNCHANGED <<genInput, genContext, pkgVars, codecVars, valVars>>

-----------------------------------------------------------------------------
(* The schema description the compiler is run on (data/*.json): a           *)
(* wordprocessing schema `w`, an Office2013 extension schema `w15`, a       *)
(* spreadsheet schema `x`, and the parts of the two document kinds.         *)

Attr(pfx, loc, required) ==
    [ q_name |-> [pfx |-> pfx, loc |-> loc], property_name |-> "",
      type |-> "StringValue", version |-> "",
      validators |-> IF required
                     THEN << [name |-> "RequiredValidator", arguments |-> <<>>] >>
                     ELSE <<>> ]

Child(name) == [name |-> name, property_name |-> ""]

Occur(min, max) == [min |-> min, max |-> max]

\* A particle item that refers to one child element.
Leaf(name, occurs, version) ==
    [ kind |-> "", name |-> name, occurs |-> occurs, items |-> <<>>,
      initial_version |-> version ]

\* A Sequence / Choice / Group particle.
Group(kind, items) ==
    [ kind |-> kind, name |-> NoRef, occurs |-> <<>>, items |-> items,
      initial_version |-> "" ]

NoParticle == Group("", <<>>)

SchemaType(name, class_name, base_class, composite_type, attributes, children, particle) ==
    [ name |-> name, class_name |-> class_name, version |-> "", part |-> "",
      composite_type |-> composite_type, base_class |-> base_class,
      is_derived |-> FALSE, is_abstract |-> FALSE,
      attributes |-> attributes, children |-> children, particle |-> particle ]

nDocument == TypeName("w:CT_Document", "w", "document")
nBody == TypeName("w:CT_Body", "w", "body")
nP == TypeName("w:CT_P", "w", "p")
nR == TypeName("w:CT_R", "w", "r")
nT == TypeName("xsd:string", "w", "t")
nOnOff == BaseTypeName("w:CT_OnOff")
nB == TypeName("w:CT_OnOff", "w", "b")
nExt == TypeName("w15:CT_Ext", "w15", "ext")
nWorkbook == TypeName("x:CT_Workbook", "x", "workbook")

tDocument ==
    [ SchemaType(nDocument, "Document", "OpenXmlPartRootElement", "OneSequence",
                 <<Attr("w", "conformance", FALSE)>>, <<Child(nBody)>>,
                 Group("Sequence", <<Leaf(nBody, <<>>, "")>>))
      EXCEPT !.part = "MainDocumentPart" ]

tBody ==
    SchemaType(nBody, "Body", "OpenXmlCompositeElement", "OneChoice", <<>>,
               <<Child(nP), Child(nB), Child(nExt)>>,
               Group("Choice", <<Leaf(nP, <<Occur(0, 0)>>, ""),
                                 Leaf(nB, <<Occur(0, 0)>>, ""),
                                 Leaf(nExt, <<Occur(0, 0)>>, "Office2013")>>))

tP ==
    SchemaType(nP, "Paragraph", "OpenXmlCompositeElement", "OneSequence", <<>>,
               <<Child(nR), Child(nT)>>,
               Group("Sequence", <<Leaf(nR, <<Occur(0, 1)>>, ""),
                                   Leaf(nT, <<Occur(0, 0)>>, "")>>))

tR ==
    SchemaType(nR, "Run", "OpenXmlLeafElement", "", 
               <<Attr("w", "val", TRUE), Attr("w", "id", FALSE)>>, <<>>, NoParticle)

tT == SchemaType(nT, "Text", "OpenXmlLeafTextElement", "", <<>>, <<>>, NoParticle)

tOnOff ==
    [ SchemaType(nOnOff, "OnOffType", "OpenXmlLeafTextElement", "",
                 <<Attr("w", "val", FALSE)>>, <<>>, NoParticle)
      EXCEPT !.is_abstract = TRUE ]

tB ==
    [ SchemaType(nB, "Bold", "OnOffType", "", <<>>, <<>>, NoParticle)
      EXCEPT !.is_derived = TRUE ]

tExt ==
    [ SchemaType(nExt, "Ext", "OpenXmlLeafElement", "", <<>>, <<>>, NoParticle)
      EXCEPT !.version = "Office2013" ]

tWorkbook ==
    [ SchemaType(nWorkbook, "Workbook", "OpenXmlPartRootElement", "OneSequence",
                 <<>>, <<>>, Group("Sequence", <<>>))
      EXCEPT !.part = "WorkbookPart" ]

Schema(uri, module, types) ==
    [ target_namespace |-> uri, module_name |-> module, types |-> types,
      enums |-> <<>> ]

BaseNamespaces ==
    << [prefix |-> "w", uri |-> "urn:w", version |-> ""],
       [prefix |-> "w15", uri |-> "urn:w15", version |-> "Office2013"],
       [prefix |-> "x", uri |-> "urn:x", version |-> ""] >>

BaseSchemas ==
    << Schema("urn:w", "w", <<tDocument, tBody, tP, tR, tT, tOnOff, tB>>),
       Schema("urn:w15", "w15", <<tExt>>),
       Schema("urn:x", "x", <<tWorkbook>>) >>

PartChild(name, data) == [name |-> name, is_data_part_reference |-> data]

Part(name, base, root, extension, version, children) ==
    [ name |-> name, base |-> base, root |-> root, extension |-> extension,
      version |-> version, children |-> children ]

\* A chart part and its drawing part refer to each other; the drawing part
\* is referred to by the chart part only.
BaseParts(chartVersion, drawingVersion) ==
    << Part("WordprocessingDocument", "OpenXmlPackage", "", "", "",
            <<PartChild("MainDocumentPart", FALSE)>>),
       Part("MainDocumentPart", "OpenXmlPart", "document", "", "",
            <<PartChild("ChartPart", FALSE), PartChild("ImagePart", FALSE),
              PartChild("MediaDataPart", TRUE)>>),
       Part("ChartPart", "OpenXmlPart", "", "", chartVersion,
            <<PartChild("ChartDrawingPart", FALSE)>>),
       Part("ChartDrawingPart", "OpenXmlPart", "", "", drawingVersion,
            <<PartChild("ChartPart", FALSE), PartChild("ImagePart", FALSE)>>),
       Part("ImagePart", "OpenXmlPart", "", ".bin", "", <<>>),
       Part("SpreadsheetDocument", "OpenXmlPackage", "", "", "",
            <<PartChild("WorkbookPart", FALSE)>>),
       Part("WorkbookPart", "OpenXmlPart", "workbook", "", "", <<>>) >>

BaseTypedSchemas ==
    << [name |-> nDocument, class_name |-> "Document",
        part_class_name |-> "MainDocumentPart"],
       [name |-> nBody, class_name |-> "Body", part_class_name |-> ""],
       [name |-> nWorkbook, class_name |-> "Workbook",
        part_class_name |-> "WorkbookPart"] >>

Input(features, kinds, schemas, parts) ==
    [ features |-> features, kinds |-> kinds, namespaces |-> BaseNamespaces,
      schemas |-> schemas, parts |-> parts, typed_schemas |-> BaseTypedSchemas ]

\* ---- the type shapes the generators are probed with ----

MaxItems == 3       \* items under the top-level particle of the probed type

nProbe == TypeName("w:CT_Probe", "w", "probe")

ItemNames == <<nR, nT, nB, nP>>

ItemName(i) == ItemNames[((i - 1) % Len(ItemNames)) + 1]

OccursChoices == { <<>>, <<Occur(0, 1)>>, <<Occur(1, 1)>> }

\* The sequences of plain leaf items of length n: item i refers to ItemName(i).
RECURSIVE PlainItems(_)
PlainItems(n) ==
    IF n = 0 THEN { <<>> }
    ELSE { Append(q, Leaf(ItemName(n), o, "")) : q \in PlainItems(n - 1), o \in OccursChoices }

ProbeItems ==
    UNION { PlainItems(n) : n \in 0..MaxItems }
    \cup { Append(q, Group("Choice", <<Leaf(nT, <<>>, "")>>)) :
               q \in PlainItems(0) \cup PlainItems(1) }

ProbeChildren == { <<>>, [i \in DOMAIN ItemNames |-> Child(ItemNames[i])] }

\* The probed type, and for a derived one its abstract base "w:CT_Probe/".
ProbeTypes ==
    { << SchemaType(nProbe, "Probe", "OpenXmlCompositeElement", ct, <<>>, cs,
                    Group(kind, items)) >> :
          ct \in {"OneSequence", "OneChoice"}, kind \in {"Sequence", "Choice"},
          cs \in ProbeChildren, items \in ProbeItems }
    \cup
    { << [ SchemaType(BaseTypeName("w:CT_Probe"), "ProbeBase",
                      "OpenXmlCompositeElement", bct, <<>>, bcs, Group("Choice", <<>>))
           EXCEPT !.is_abstract = TRUE ],
         [ SchemaType(nProbe, "Probe", "ProbeBase", ct, <<>>, cs, Group(kind, items))
           EXCEPT !.is_derived = TRUE ] >> :
          bct \in {"OneSequence", "OneChoice"}, bcs \in ProbeChildren,
          ct \in {"OneSequence", "OneChoice"}, kind \in {"Sequence", "Choice"},
          cs \in ProbeChildren, items \in ProbeItems }

WithProbe(probe) ==
    [BaseSchemas EXCEPT ![1].types = BaseSchemas[1].types \o probe]

FeatureSets == { {}, {"Office2013"}, {"Office2010"} }

KindSets == { {}, {"docx"}, {"docx", "xlsx"} }

\* ---- schema descriptions with references that do not resolve ----

nNote == TypeName("w15:CT_Note", "w15", "note")
nGhost == TypeName("w:CT_Ghost", "w", "ghost")

\* A type of the Office2013 namespace that carries no version tag itself.
tNote == SchemaType(nNote, "Note", "OpenXmlLeafElement", "", <<>>, <<>>, NoParticle)

\* w:body with one more child reference.
BodyWith(name) ==
    [tBody EXCEPT !.children = Append(tBody.children, Child(name)),
                  !.particle.items = Append(tBody.particle.items,
                                            Leaf(name, <<Occur(0, 0)>>, ""))]

\* w:body refers to w15:note, which is declared in the Office2013 schema.
NoteSchemas ==
    << Schema("urn:w", "w", <<tDocument, BodyWith(nNote), tP, tR, tT, tOnOff, tB>>),
       Schema("urn:w15", "w15", <<tExt, tNote>>),
       Schema("urn:x", "x", <<tWorkbook>>) >>

\* w:body refers to w:ghost, which no schema declares.
GhostSchemas ==
    [BaseSchemas EXCEPT ![1].types = <<tDocument, BodyWith(nGhost), tP, tR, tT, tOnOff, tB>>]

\* A second element with the local name of w:t, of another namespace.
nMT == TypeName("m:CT_Text", "m", "t")

tMT == SchemaType(nMT, "MathText", "OpenXmlLeafTextElement", "", <<>>, <<>>, NoParticle)

\* Probed types whose children w:t and m:t share the local name "t", the
\* particle naming them in either order.
SharedNameProbes ==
    { << tMT,
         SchemaType(nProbe, "Probe", "OpenXmlCompositeElement", ct, <<>>,
                    <<Child(cs[1]), Child(cs[2])>>,
                    Group(kind, <<Leaf(items[1], <<>>, ""), Leaf(items[2], <<>>, "")>>)) >> :
          ct \in {"OneSequence", "OneChoice"}, kind \in {"Sequence", "Choice"},
          cs \in {<<nT, nMT>>, <<nMT, nT>>}, items \in {<<nT, nMT>>, <<nMT, nT>>} }

GenInputs ==
    { Input({}, {"docx"}, WithProbe(probe), BaseParts("", "")) :
          probe \in ProbeTypes \cup SharedNameProbes }
    \cup
    { Input(f, k, BaseSchemas, BaseParts(cv, dv)) :
          f \in FeatureSets, k \in KindSets,
          cv \in {"", "Office2013"}, dv \in {"", "Office2013"} }
    \cup
    { Input(f, {"docx"}, schemas, BaseParts("", "")) :
          f \in FeatureSets, schemas \in {NoteSchemas, GhostSchemas} }

InitGen ==
    /\ genInput \in GenInputs
    /\ genContext = Idle
    /\ genOut = Idle
    /\ IdlePkg /\ IdleCodec /\ IdleVal

NextGen ==
    \/ NewGenContext
    \/ WriteSchemas
    \/ WriteDeserializers
    \/ WriteSerializers
    \/ WriteParts
    \/ WriteValidators

SpecGen == InitGen /\ [][NextGen]_vars

-----------------------------------------------------------------------------
(* Reachability after GenContext::new.                                      *)

ContextBuilt == genContext # Idle /\ genContext.kind = "ok"

RetainedParts == { genContext.parts[i].name : i \in DOMAIN genContext.parts }

RetainedTypes == { t.name : t \in Range(AllTypes(genContext.schemas)) }

\* The version-filtered part graph of the input: the parts whose version
\* (and bound type version) is enabled, with an edge to every
\* non-data-reference child part that is itself enabled.
EnabledParts(input) ==
    { p.name : p \in { q \in Range(input.parts) :
                          PartVersionOk(input, q.name, q.version) } }

EnabledChildParts(input, P) ==
    { c.name : c \in UNION { { x \in Range(p.children) : ~x.is_data_part_reference } :
                                 p \in { q \in Range(input.parts) : q.name \in P } } }
    \cap EnabledParts(input)

RECURSIVE LeastPartSet(_, _)
LeastPartSet(input, P) ==
    LET step == P \cup EnabledChildParts(input, P)
    IN  IF step = P THEN P ELSE LeastPartSet(input, step)

SelectedRoots(input) == Range(RootParts(input.kinds)) \cap EnabledParts(input)

\* C9: after GenContext::new the retained parts are exactly the least set
\* that contains the selected document-root parts and is closed under the
\* non-data-reference child parts of the version-filtered part graph, so
\* every retained part is reachable from a selected root through retained
\* parts.
C9_RetainedPartsAreLeastSet ==
    ContextBuilt => RetainedParts = LeastPartSet(genInput, SelectedRoots(genInput))

\* The least type set over the schemas handed to the generators: the bound
\* root-element types of the retained root-bearing parts, closed under the
\* base type of a derived type and under child element types.
RootElementTypes ==
    { BoundType(genInput, p.name) :
          p \in { q \in Range(genContext.parts) : q.base = "OpenXmlPart" /\ q.root # "" } }

TypeSuccessors(T) ==
    LET known == { t \in Range(AllTypes(genContext.schemas)) : t.name \in T }
    IN  { BaseTypeName(split_name(t.name)[1]) : t \in { u \in known : u.is_derived } }
        \cup UNION { { c.name : c \in Range(t.children) } : t \in known }

RECURSIVE LeastTypeSet(_)
LeastTypeSet(T) ==
    LET step == T \cup TypeSuccessors(T)
    IN  IF step = T THEN T ELSE LeastTypeSet(step)

\* C10: the schema types handed to the generators are exactly the least
\* set that contains the bound root-element type of every retained
\* root-bearing part and is closed under base type and child element type;
\* no type outside that set is present in a retained schema.
C10_RetainedTypesAreLeastSet ==
    ContextBuilt => RetainedTypes = LeastTypeSet(RootElementTypes)

\* Every type of the least set that the version filter keeps is handed to
\* the generators (the half of the above that the code does provide).
ReachableTypesAreRetained ==
    ContextBuilt => LeastTypeSet(RootElementTypes) \subseteq RetainedTypes

\* Every non-data-reference child kept in a retained part names a retained
\* part.
KeptChildPartsAreRetained ==
    ContextBuilt =>
        \A p \in Range(genContext.parts) : \A c \in Range(p.children) :
            ~c.is_data_part_reference => c.name \in RetainedParts

-----------------------------------------------------------------------------
(* How the four schema-driven generators represent the children of a type. *)

TypeTasks == {"schemas", "deserializers", "serializers", "validators"}

GenItems(task) ==
    UNION { Range(genOut[task].files[m].items) : m \in DOMAIN genOut[task].files }

Generated(task, name) ==
    /\ genOut # Idle
    /\ \E it \in GenItems(task) : it.name = name /\ it.out.ok

OutOf(task, name) == (CHOOSE it \in GenItems(task) : it.name = name).out

GeneratedByAll(name) == \A task \in TypeTasks : Generated(task, name)

\* The flatten test as the specification words it.
FlattenTest(t) ==
    /\ t.particle.kind = "Sequence" \/ t.composite_type = "OneSequence"
    /\ \A p \in Range(t.particle.items) : p.kind = "" /\ p.items = <<>>

\* How a generated item holds the children: in named fields, in the
\* `children` union list, or not at all.
Representation(fields) ==
    IF \E f \in Range(fields) : f.kind = "children" THEN "union"
    ELSE IF \E f \in Range(fields) : f.kind = "child" THEN "named"
    ELSE "none"

HandedTypes == IF ContextBuilt THEN Range(TypeMap(genContext)) ELSE {}

\* C4: a type's children are held in named, individually typed fields iff
\* its particle kind is Sequence or its composite_type is OneSequence and
\* every item directly under the top-level particle is a plain leaf
\* reference; otherwise they are held in the list of the ChildChoice union;
\* and the struct, deserializer, serializer and validator generators
\* represent the children of one type the same way.
C4_FlattenTestDecidesRepresentation ==
    \A t \in HandedTypes :
        /\ (Generated("schemas", t.name) /\ t.children # <<>> /\ t.particle.items # <<>>)
               => Representation(OutOf("schemas", t.name).fields)
                      = (IF FlattenTest(t) THEN "named" ELSE "union")
        /\ GeneratedByAll(t.name)
               => \A task \in TypeTasks :
                      Representation(OutOf(task, t.name).fields)
                          = Representation(OutOf("schemas", t.name).fields)

\* The occurrence the specification gives a flattened field.
ClaimedOccurrence(p) ==
    IF p.occurs = <<>> THEN "Required"
    ELSE IF p.occurs[1].min = 0 /\ p.occurs[1].max = 1 THEN "Optional"
    ELSE "Repeated"

ChildHolders(fields) == SelectSeq(fields, LAMBDA f : f.kind \in {"child", "children"})

\* C5: for a type that passes the flatten test the generated struct has
\* exactly one named non-union field per particle item, in particle order,
\* Required when the item has no occurs entry, Optional when occurs[0] is
\* min 0 max 1 and Repeated otherwise, and no `children` union list.
C5_FlattenedFieldsFollowParticle ==
    \A t \in HandedTypes :
        (Generated("schemas", t.name) /\ FlattenTest(t)
             /\ t.base_class \notin {"OpenXmlLeafTextElement", "OpenXmlLeafElement"})
            => LET fs == ChildHolders(OutOf("schemas", t.name).fields)
               IN  /\ Len(fs) = Len(t.particle.items)
                   /\ \A i \in DOMAIN fs :
                          /\ fs[i].kind = "child"
                          /\ fs[i].ref = t.particle.items[i].name
                          /\ fs[i].occ = ClaimedOccurrence(t.particle.items[i])

-----------------------------------------------------------------------------
(* The generated codec at run time.                                         *)
(*                                                                          *)
(* A String is a sequence of characters; Amp is the character "&" and       *)
(* AmpRef the five characters "&amp;".  An instance of a generated struct   *)
(* is [type, f]: the type name and the fields by name; an Option or a Vec   *)
(* field is a sequence, a Box<T> field a sequence of length one, the        *)
(* HashMap xmlns_map a set of <<key, value>> pairs.                         *)

Amp == "&"

AmpRef == "&amp;"

\* quick_xml::escape::escape
escape(s) == [i \in DOMAIN s |-> IF s[i] = Amp THEN AmpRef ELSE s[i]]

\* quick-xml's unescape (decode_and_unescape_value): an "&" that starts no
\* reference is an error.
unescape(s) ==
    IF \E i \in DOMAIN s : s[i] = Amp
    THEN [ok |-> FALSE, s |-> <<>>]
    ELSE [ok |-> TRUE, s |-> [i \in DOMAIN s |-> IF s[i] = AmpRef THEN Amp ELSE s[i]]]

NoName == [pfx |-> "", loc |-> ""]

XmlnsKey == [pfx |-> "", loc |-> "xmlns"]

McIgnorableKey == [pfx |-> "mc", loc |-> "Ignorable"]

\* What write_str / write_char append to the writer, piece by piece.
Chunk(k, name, val) == [k |-> k, name |-> name, val |-> val]

XmlHeader == << Chunk("decl", NoName, <<>>), Chunk("chars", NoName, <<"\r\n">>) >>

\* The plan of a type among the items a generator wrote.
RECURSIVE ItemsOf(_)
ItemsOf(files) ==
    IF files = <<>> THEN <<>> ELSE Head(files).items \o ItemsOf(Tail(files))

HasPlan(files, name) == \E it \in Range(ItemsOf(files)) : it.name = name /\ it.out.ok

PlanOf(files, name) == (CHOOSE it \in Range(ItemsOf(files)) : it.name = name).out

\* A set as a sequence, in the order the HashMap happens to iterate.
RECURSIVE IterationOrder(_)
IterationOrder(S) ==
    IF S = {} THEN <<>>
    ELSE LET x == CHOOSE x \in S : TRUE IN <<x>> \o IterationOrder(S \ {x})

\* The generated write_xml(&self, writer, xmlns_prefix) of serializer.rs
\* 498-522; `ser` is what write_serializers wrote.
RECURSIVE write_xml(_, _, _)
write_xml(ser, v, xmlns_prefix) ==
    LET plan == PlanOf(ser, v.type)
        tag == IF xmlns_prefix = plan.last_name_prefix THEN plan.bare ELSE plan.prefixed
        xmlns_attr_writer ==
            IF ~plan.xmlns THEN <<>>
            ELSE (IF v.f[XmlnsFields[1].name] = <<>> THEN <<>>
                  ELSE <<Chunk("attr", XmlnsKey, v.f[XmlnsFields[1].name][1])>>)
                 \o (LET kv == IterationOrder(v.f[XmlnsFields[2].name])
                     IN  [i \in DOMAIN kv |->
                            Chunk("attr", [pfx |-> "xmlns", loc |-> kv[i][1]], kv[i][2])])
                 \o (IF v.f[XmlnsFields[3].name] = <<>> THEN <<>>
                     ELSE <<Chunk("attr", McIgnorableKey, v.f[XmlnsFields[3].name][1])>>)
        attr_writer ==
            Flatten([i \in DOMAIN plan.attributes |->
                LET a == plan.attributes[i]
                IN  IF is_validator_required(a) \/ v.f[a.q_name] # <<>>
                    THEN <<Chunk("attr", a.q_name, escape(v.f[a.q_name][1]))>>
                    ELSE <<>>])
        children_writer ==
            CASE plan.body = "text" ->
                     IF v.f[XmlContentField.name] = <<>> THEN <<>>
                     ELSE <<Chunk("chars", NoName, escape(v.f[XmlContentField.name][1]))>>
              [] plan.body = "flat" ->
                     Flatten([i \in DOMAIN plan.fields |->
                         LET cs == v.f[plan.fields[i].name]
                         IN  Flatten([j \in DOMAIN cs |-> write_xml(ser, cs[j], xmlns_prefix)])])
              [] plan.body = "union" ->
                     LET cs == v.f[ChildrenField.name]
                     IN  Flatten([j \in DOMAIN cs |-> write_xml(ser, cs[j], xmlns_prefix)])
              [] OTHER -> <<>>
    IN  (IF plan.header THEN XmlHeader ELSE <<>>)
        \o <<Chunk("open", tag, <<>>)>>
        \o xmlns_attr_writer
        \o attr_writer
        \o (IF plan.body = "selfclose" THEN <<Chunk("sgt", NoName, <<>>)>>
            ELSE <<Chunk("gt", NoName, <<>>)>> \o children_writer
                 \o <<Chunk("close", tag, <<>>)>>)

\* The generated to_xml(&self) of serializer.rs 448-491.
to_xml(ser, v) ==
    LET plan == PlanOf(ser, v.type)
    IN  write_xml(ser, v,
            IF plan.xmlns /\ v.f[XmlnsFields[1].name] = << <<plan.xmlns_uri_str>> >>
            THEN plan.xmlns_prefix_str ELSE "")

\* quick-xml's Reader over the written text: the events it yields before
\* Eof.  Character data is split at entity references, which are events of
\* their own (GeneralRef); empty character data yields no event.
Event(k, name, attrs, text) == [k |-> k, name |-> name, attrs |-> attrs, text |-> text]

RECURSIVE TextEvents(_)
TextEvents(s) ==
    IF s = <<>> THEN <<>>
    ELSE IF Head(s) = AmpRef
    THEN <<Event("GeneralRef", NoName, <<>>, <<"amp">>)>> \o TextEvents(Tail(s))
    ELSE LET n == CHOOSE n \in 1..Len(s) :
                      /\ \A i \in 1..n : s[i] # AmpRef
                      /\ n = Len(s) \/ s[n + 1] = AmpRef
         IN  <<Event("Text", NoName, <<>>, SubSeq(s, 1, n))>>
             \o TextEvents(SubSeq(s, n + 1, Len(s)))

RECURSIVE Tokenise(_)
Tokenise(chunks) ==
    IF chunks = <<>> THEN <<>>
    ELSE LET c == Head(chunks)
         IN  CASE c.k = "decl" ->
                      <<Event("Decl", NoName, <<>>, <<>>)>> \o Tokenise(Tail(chunks))
               [] c.k = "chars" -> TextEvents(c.val) \o Tokenise(Tail(chunks))
               [] c.k = "close" ->
                      <<Event("End", c.name, <<>>, <<>>)>> \o Tokenise(Tail(chunks))
               [] OTHER ->
                      LET n == CHOOSE n \in 2..Len(chunks) :
                                   /\ chunks[n].k # "attr"
                                   /\ \A i \in 2..(n - 1) : chunks[i].k = "attr"
                          attrs == [i \in 1..(n - 2) |->
                                      [key |-> chunks[i + 1].name, value |-> chunks[i + 1].val]]
                      IN  <<Event(IF chunks[n].k = "sgt" THEN "Empty" ELSE "Start",
                                  c.name, attrs, <<>>)>>
                          \o Tokenise(SubSeq(chunks, n + 1, Len(chunks)))

\* SdkError::MismatchError { expected, found }, CommonError(msg), UnknownError
\* and the errors quick-xml reports.
SdkError(kind, expected, found, msg) ==
    [kind |-> kind, expected |-> expected, found |-> found, msg |-> msg]

NoError == SdkError("none", <<>>, NoName, NoName)

MismatchError(tag_prefixed, tag, found) ==
    SdkError("MismatchError", <<tag_prefixed, tag>>, found, NoName)

CommonError(msg) == SdkError("CommonError", <<>>, NoName, msg)

UnknownError == SdkError("UnknownError", <<>>, NoName, NoName)

QuickXmlError == SdkError("QuickXmlError", <<>>, NoName, NoName)

NoEvent == Event("none", NoName, <<>>, <<>>)

\* expect_event_start that compares with the qualified tag only.
expect_event_start_qualified_only(events, xml_event, tag_prefixed, tag) ==
    IF xml_event # <<>>
    THEN [ok |-> TRUE, e |-> xml_event[1].e, empty_tag |-> xml_event[1].empty_tag,
          err |-> NoError, rest |-> events]
    ELSE IF \A i \in DOMAIN events : events[i].k \notin {"Start", "Empty"}
    THEN [ok |-> FALSE, e |-> NoEvent, empty_tag |-> FALSE,
          err |-> UnknownError, rest |-> <<>>]
    ELSE LET i == CHOOSE i \in DOMAIN events :
                      /\ events[i].k \in {"Start", "Empty"}
                      /\ \A j \in 1..(i - 1) : events[j].k \notin {"Start", "Empty"}
             event == events[i]
             rest == SubSeq(events, i + 1, Len(events))
         IN  IF ~(event.name = tag_prefixed)
             THEN [ok |-> FALSE, e |-> NoEvent, empty_tag |-> FALSE,
                   err |-> MismatchError(tag_prefixed, tag, event.name), rest |-> rest]
             ELSE [ok |-> TRUE, e |-> event, empty_tag |-> event.k = "Empty",
                   err |-> NoError, rest |-> rest]

\* common.rs expect_event_start.  `events` is what the reader has left
\* (Eof follows the last one), xml_event is <<>> for None and
\* <<[e, empty_tag]>> for Some((e, empty_tag)).
expect_event_start(events, xml_event, tag_prefixed, tag) ==
    IF xml_event # <<>>
    THEN [ok |-> TRUE, e |-> xml_event[1].e, empty_tag |-> xml_event[1].empty_tag,
          err |-> NoError, rest |-> events]
    ELSE IF \A i \in DOMAIN events : events[i].k \notin {"Start", "Empty"}
    THEN [ok |-> FALSE, e |-> NoEvent, empty_tag |-> FALSE,
          err |-> UnknownError, rest |-> <<>>]
    ELSE LET i == CHOOSE i \in DOMAIN events :
                      /\ events[i].k \in {"Start", "Empty"}
                      /\ \A j \in 1..(i - 1) : events[j].k \notin {"Start", "Empty"}
             event == events[i]
             rest == SubSeq(events, i + 1, Len(events))
         IN  IF ~(event.name = tag_prefixed \/ event.name = tag)
             THEN [ok |-> FALSE, e |-> NoEvent, empty_tag |-> FALSE,
                   err |-> MismatchError(tag_prefixed, tag, event.name), rest |-> rest]
             ELSE [ok |-> TRUE, e |-> event, empty_tag |-> event.k = "Empty",
                   err |-> NoError, rest |-> rest]

NoValue == [type |-> NoRef, f |-> <<>>]

Returned(value, rest) == [ok |-> TRUE, value |-> value, err |-> NoError, rest |-> rest]

Failed(err, rest) == [ok |-> FALSE, value |-> NoValue, err |-> err, rest |-> rest]

\* field_declaration_list: every field starts as None, vec![] or an empty
\* HashMap.
DeclaredFields(plan) ==
    [n \in { plan.fields[i].name : i \in DOMAIN plan.fields } |->
        IF n = XmlnsFields[2].name THEN {} ELSE <<>>]

\* The `for attr in e.attributes()` loop of deserialize_inner
\* (deserializer.rs 438-497): [ok, f].
RECURSIVE attr_match(_, _, _)
attr_match(plan, f, attrs) ==
    IF attrs = <<>> THEN [ok |-> TRUE, f |-> f]
    ELSE LET attr == Head(attrs)
             value == unescape(attr.value)
             declared == \E i \in DOMAIN plan.attributes :
                             plan.attributes[i].q_name = attr.key
         IN  IF declared
             THEN IF value.ok
                  THEN attr_match(plan, [f EXCEPT ![attr.key] = <<value.s>>], Tail(attrs))
                  ELSE [ok |-> FALSE, f |-> f]
             ELSE IF ~plan.xmlns THEN attr_match(plan, f, Tail(attrs))
             ELSE IF attr.key = XmlnsKey \/ attr.key = McIgnorableKey
             THEN IF value.ok
                  THEN attr_match(plan,
                           [f EXCEPT ![IF attr.key = XmlnsKey THEN XmlnsFields[1].name
                                       ELSE XmlnsFields[3].name] = <<value.s>>],
                           Tail(attrs))
                  ELSE [ok |-> FALSE, f |-> f]
             ELSE IF attr.key.pfx = "xmlsns"
             THEN IF value.ok
                  THEN attr_match(plan,
                           [f EXCEPT ![XmlnsFields[2].name] =
                               { kv \in @ : kv[1] # attr.key.loc }
                               \cup { <<attr.key.loc, value.s>> }],
                           Tail(attrs))
                  ELSE [ok |-> FALSE, f |-> f]
             ELSE attr_match(plan, f, Tail(attrs))

\* A reader without the field_unwrap_list.
MissingField_unchecked(plan, f) == {}

\* field_unwrap_list: the first required field that is still None.
MissingField(plan, f) ==
    { i \in DOMAIN plan.unwraps : f[plan.unwraps[i]] = <<>> }

\* The generated deserialize_inner(xml_reader, xml_event) of deserializer.rs
\* 548-586 and its read loop; `des` is what write_deserializers wrote.
RECURSIVE deserialize_inner(_, _, _, _)
RECURSIVE read_loop(_, _, _, _)
deserialize_inner(des, name, events, xml_event) ==
    LET plan == PlanOf(des, name)
        start == expect_event_start(events, xml_event, plan.prefixed, plan.bare)
    IN  IF ~start.ok THEN Failed(start.err, start.rest)
        ELSE LET attrs == attr_match(plan, DeclaredFields(plan), start.e.attrs)
             IN  IF ~attrs.ok THEN Failed(QuickXmlError, start.rest)
                 ELSE LET body == IF start.empty_tag
                                  THEN [ok |-> TRUE, f |-> attrs.f, err |-> NoError,
                                        rest |-> start.rest]
                                  ELSE read_loop(des, plan, attrs.f, start.rest)
                      IN  IF ~body.ok THEN Failed(body.err, body.rest)
                          ELSE IF MissingField(plan, body.f) # {}
                          THEN LET i == CHOOSE i \in MissingField(plan, body.f) :
                                            \A j \in MissingField(plan, body.f) : i <= j
                               IN  Failed(CommonError(plan.unwraps[i]), body.rest)
                          ELSE Returned([type |-> name, f |-> body.f], body.rest)

read_loop(des, plan, f, events) ==
    IF events = <<>>
    THEN [ok |-> FALSE, f |-> f, err |-> UnknownError, rest |-> <<>>]
    ELSE LET ev == Head(events)
             hits == { i \in DOMAIN plan.arms : ev.name \in plan.arms[i].tags }
         IN  IF ev.k = "Text" /\ plan.text
             THEN read_loop(des, plan,
                      [f EXCEPT ![XmlContentField.name] = <<ev.text>>], Tail(events))
             ELSE IF ev.k \in {"Start", "Empty"} /\ plan.arms # <<>>
             THEN IF hits = {}
                  THEN [ok |-> FALSE, f |-> f,
                        err |-> CommonError([pfx |-> "", loc |-> plan.class_name]),
                        rest |-> Tail(events)]
                  ELSE LET arm == plan.arms[CHOOSE i \in hits : \A j \in hits : i <= j]
                           child == deserialize_inner(des, arm.child, Tail(events),
                                        << [e |-> ev, empty_tag |-> ev.k = "Empty"] >>)
                       IN  IF ~child.ok
                           THEN [ok |-> FALSE, f |-> f, err |-> child.err,
                                 rest |-> child.rest]
                           ELSE read_loop(des, plan,
                                    [f EXCEPT ![arm.slot] =
                                        IF arm.occ = "Repeated" THEN Append(@, child.value)
                                        ELSE <<child.value>>],
                                    child.rest)
             ELSE IF ev.k = "End" /\ ev.name \in {plan.prefixed, plan.bare}
             THEN [ok |-> TRUE, f |-> f, err |-> NoError, rest |-> Tail(events)]
             ELSE read_loop(des, plan, f, Tail(events))

\* Deserializeable::from_str
from_str(des, name, events) == deserialize_inner(des, name, events, <<>>)

\* ---- the instances that are serialized ----

MaxRepeat == 2      \* longest Vec of a Repeated flattened field
MaxChildren == 2    \* longest `children` list

AttrStrings == { <<"a">>, <<"a", Amp>> }

Texts == { <<>>, <<"a">>, <<"a", Amp, "b">> }

XmlnsUris == { <<"urn:w">>, <<"urn:x">> }

XmlnsMaps == { {}, { <<"r", <<"urn:r">> >> } }

McIgnorables == { <<"w14">> }

Options(S) == { <<>> } \cup { <<x>> : x \in S }

\* The instances of the struct `name` that gen_schema_type declared (`st`
\* is what write_schemas wrote).  A deep instance has children, which are
\* themselves shallow: without optional or repeated children.
RECURSIVE Instances(_, _, _)
RECURSIVE FieldValues(_, _, _, _)
RECURSIVE Structs(_, _, _, _)
Instances(st, name, deep) ==
    LET item == PlanOf(st, name)
        names == [i \in DOMAIN item.fields |-> item.fields[i].name]
    IN  { [type |-> name,
           f |-> [n \in Range(names) |->
                     vals[CHOOSE i \in DOMAIN names : names[i] = n]]] :
              vals \in Structs(st, item, 1, deep) }

\* The field values of the fields i.. of a struct, in field order.
Structs(st, item, i, deep) ==
    IF i > Len(item.fields) THEN { <<>> }
    ELSE { <<x>> \o rest : x \in FieldValues(st, item, item.fields[i], deep),
                           rest \in Structs(st, item, i + 1, deep) }

FieldValues(st, item, field, deep) ==
    CASE field.kind = "attr" ->
             IF field.occ = "Required" THEN { <<x>> : x \in AttrStrings }
             ELSE Options(AttrStrings)
      [] field.kind = "xmlns" -> Options(XmlnsUris)
      [] field.kind = "xmlns_map" -> XmlnsMaps
      [] field.kind = "mc_ignorable" -> Options(McIgnorables)
      [] field.kind = "xml_content" -> Options(Texts)
      [] field.kind = "child" ->
             IF field.occ = "Required"
             THEN { <<c>> : c \in Instances(st, field.ref, FALSE) }
             ELSE IF ~deep THEN { <<>> }
             ELSE IF field.occ = "Optional"
             THEN Options(Instances(st, field.ref, FALSE))
             ELSE SeqsUpTo(Instances(st, field.ref, FALSE), MaxRepeat)
      [] OTHER ->
             IF ~deep THEN { <<>> }
             ELSE SeqsUpTo(UNION { Instances(st, item.variants[j], FALSE) :
                                       j \in DOMAIN item.variants },
                           MaxChildren)

\* The SDK builds that exchange documents: the cargo features of each.
CodecBuilds == { {}, {"Office2013"} }

CodecInput(features) == Input(features, {"docx", "xlsx"}, BaseSchemas, BaseParts("", ""))

\* What a generator task of the build with these features wrote.
BuildFiles(features, task) == WriteTask(task, GenContext_new(CodecInput(features))).files

Generated_all == genOut # Idle /\ \A task \in Tasks : genOut[task].status = "ok"

\* An instance is built and x.to_xml() is called in an SDK built with the
\* features wb.
ToXml ==
    /\ Generated_all
    /\ origin = Idle
    /\ \E wb \in CodecBuilds :
         LET st == BuildFiles(wb, "schemas")
             ser == BuildFiles(wb, "serializers")
         IN  \E name \in { it.name : it \in Range(ItemsOf(ser)) } :
               \E v \in Instances(st, name, TRUE) :
                  origin' = [kind |-> "instance", build |-> wb, value |-> v,
                             xml |-> to_xml(ser, v)]
    /\ UNCHANGED <<reader, outcome, pkgVars, genVars, valVars>>

\* T::from_str(xml) in the SDK of this build, for a generated type T.
FromStr ==
    /\ Generated_all
    /\ origin # Idle
    /\ outcome = Idle
    /\ LET des == genOut["deserializers"].files
       IN  \E target \in { it.name : it \in Range(ItemsOf(des)) } :
              LET r == from_str(des, target, Tokenise(origin.xml))
              IN  /\ outcome' = [kind |-> "returned", target |-> target, ok |-> r.ok,
                                 value |-> r.value, err |-> r.err]
                  /\ reader' = [kind |-> "read", events |-> r.rest]
    /\ UNCHANGED <<origin, pkgVars, genVars, valVars>>

InitCodec ==
    /\ genInput \in { CodecInput(f) : f \in CodecBuilds }
    /\ genContext = Idle
    /\ genOut = Idle
    /\ IdlePkg /\ IdleCodec /\ IdleVal

NextCodec ==
    \/ NewGenContext
    \/ WriteSchemas
    \/ WriteDeserializers
    \/ WriteSerializers
    \/ WriteParts
    \/ WriteValidators
    \/ ToXml
    \/ FromStr

SpecCodec == InitCodec /\ [][NextCodec]_vars

-----------------------------------------------------------------------------
(* Properties of the generated codec.                                       *)

HasReturned == outcome # Idle

\* The document from_str was given, as the reader yields it.
Document == Tokenise(origin.xml)

\* The first Start or Empty event of the document: the one the outermost
\* expect_event_start reads itself.
FirstStart ==
    Document[CHOOSE i \in DOMAIN Document :
                 /\ Document[i].k \in {"Start", "Empty"}
                 /\ \A j \in 1..(i - 1) : Document[j].k \notin {"Start", "Empty"}]

TargetPlan == PlanOf(genOut["deserializers"].files, outcome.target)

\* C1: when expect_event_start reads the next Start/Empty event itself for
\* a type with qualified tag P and bare tag L, it succeeds iff the event
\* name is P or L; for any other name it returns a MismatchError whose
\* `expected` carries P and L and whose `found` carries the name read, and
\* that error is what from_str returns.
C1_TagDualMatching ==
    HasReturned =>
        LET P == TargetPlan.prefixed
            L == TargetPlan.bare
            start == expect_event_start(Document, <<>>, P, L)
        IN  /\ start.ok <=> FirstStart.name \in {P, L}
            /\ start.ok => start.e = FirstStart /\ outcome.err.kind # "MismatchError"
            /\ ~start.ok => /\ start.err = MismatchError(P, L, FirstStart.name)
                            /\ ~outcome.ok
                            /\ outcome.err = start.err

\* from_str::<T> was given a document whose root is neither T's qualified
\* nor T's bare tag and returned the MismatchError.
C1_Witness ==
    /\ HasReturned
    /\ FirstStart.name \notin {TargetPlan.prefixed, TargetPlan.bare}
    /\ outcome.err.kind = "MismatchError"
    /\ outcome.err.found = FirstStart.name

\* The document was written by the serializer of the very build that reads
\* it back as the type of the instance.
RoundTrip ==
    /\ HasReturned
    /\ outcome.target = origin.value.type
    /\ origin.build = genInput.features

\* C2: for every generated type and every instance x (any combination of
\* set and unset optional attributes, xmlns, xmlns_map entries,
\* mc_ignorable, children or flattened fields, text content),
\* deserializing the serializer's output for x yields a value equal to x.
C2_RoundTrip ==
    RoundTrip => outcome.ok /\ outcome.value = origin.value

\* The version tag is not enabled in the active configuration.
NotEnabled(version) == ~(version \in {"", "Office2007"} \/ version \in genInput.features)

\* The child references of the type in the schema description whose target
\* type's version tag is not enabled.
PrunedChildren(name) ==
    LET all == AllTypes(genInput.schemas)
    IN  { c.name : c \in { c \in Range(Named(all, name).children) :
                               NotEnabled(Named(all, c.name).version) } }

\* The instances held directly in the child fields of an instance.
ChildInstances(v) ==
    LET item == PlanOf(BuildFiles(origin.build, "schemas"), v.type)
    IN  UNION { Range(v.f[fld.name]) :
                    fld \in { g \in Range(item.fields) : g.kind \in {"child", "children"} } }

-----------------------------------------------------------------------------
(* generator/validator.rs: the attribute statements of validate(), and the  *)
(* validate() they make at run time.                                        *)

Digits == <<"0", "1", "2", "3", "4", "5", "6", "7", "8", "9">>

IsDigit(c) == \E d \in DOMAIN Digits : Digits[d] = c

DigitValue(c) == (CHOOSE d \in DOMAIN Digits : Digits[d] = c) - 1

RECURSIVE DecimalValue(_)
DecimalValue(s) ==
    IF s = <<>> THEN 0
    ELSE 10 * DecimalValue(SubSeq(s, 1, Len(s) - 1)) + DigitValue(s[Len(s)])

\* str::parse::<i64>: an optional sign and at least one digit.
parse_i64(s) ==
    LET signed == s # <<>> /\ s[1] \in {"-", "+"}
        digits == IF signed THEN Tail(s) ELSE s
    IN  IF digits = <<>> \/ \E i \in DOMAIN digits : ~IsDigit(digits[i])
        THEN [ok |-> FALSE, n |-> 0]
        ELSE [ok |-> TRUE,
              n |-> IF signed /\ s[1] = "-" THEN 0 - DecimalValue(digits)
                    ELSE DecimalValue(digits)]

\* str::parse::<usize>: as parse::<i64>, but no minus sign.
parse_usize(s) ==
    IF s # <<>> /\ s[1] = "-" THEN [ok |-> FALSE, n |-> 0] ELSE parse_i64(s)

\* r#type.starts_with("ListValue<") || r#type.starts_with("EnumValue<")
ListOrEnumTypes == {"ListValue<StringValue>", "EnumValue<w:ST_Conformance>"}

\* The types whose value validate() reads through parse::<i64>()?.
ParsedTypes == {"StringValue", "IntegerValue", "SByteValue", "DecimalValue"}

\* if <value> <cmp> <bound> { validator_results[slot] = false; }
CheckStmt(cmp, via, bound, slot) ==
    [cmp |-> cmp, via |-> via, bound |-> bound, slot |-> slot]

\* validator_results[slot] = true;
SetTrueStmt(slot) == [cmp |-> "set_true", via |-> "", bound |-> 0, slot |-> slot]

\* How the generated comparison reads a number of the attribute's type.
NumberVia(type) ==
    IF type = "Int64Value" THEN "direct"
    ELSE IF type \in ParsedTypes THEN "parse"
    ELSE "cast"

\* lines 319-395 and 411-557: the statements of one argument of a validator.
ArgumentStmts(type, validator_name, argument, slot) ==
    IF validator_name = "StringValidator" /\ argument.name = "MinLength"
    THEN LET value == parse_usize(argument.value).n
         IN  IF value = 0 THEN <<>>
             ELSE IF value = 1 THEN << CheckStmt("is_empty", "len", 0, slot) >>
             ELSE << CheckStmt("lt", "len", value, slot) >>
    ELSE IF validator_name = "StringValidator" /\ argument.name = "MaxLength"
    THEN << CheckStmt("gt", "len", parse_usize(argument.value).n, slot) >>
    ELSE IF validator_name = "NumberValidator" /\ argument.name = "MinInclusive"
    THEN << CheckStmt("lt", NumberVia(type), parse_i64(argument.value).n, slot) >>
    ELSE IF validator_name = "NumberValidator" /\ argument.name = "MaxInclusive"
    THEN << CheckStmt("gt", NumberVia(type), parse_i64(argument.value).n, slot) >>
    ELSE <<>>

\* add_validator: the validator has an argument the generator knows.
AddsValidator(validator) ==
    \/ /\ validator.name = "StringValidator"
       /\ \E a \in Range(validator.arguments) : a.name \in {"MinLength", "MaxLength"}
    \/ /\ validator.name = "NumberValidator"
       /\ \E a \in Range(validator.arguments) : a.name \in {"MinInclusive", "MaxInclusive"}

\* argument.value.parse().unwrap() of the arguments the generator reads.
ArgumentsParse(validator) ==
    \A a \in Range(validator.arguments) :
        /\ (validator.name = "StringValidator" /\ a.name \in {"MinLength", "MaxLength"})
               => parse_usize(a.value).ok
        /\ (validator.name = "NumberValidator" /\ a.name \in {"MinInclusive", "MaxInclusive"})
               => parse_i64(a.value).ok

\* lines 310-572: the loop over the validators; validator_count is the
\* slot of the next validator that adds statements.
RECURSIVE ValidatorStmts(_, _, _)
ValidatorStmts(type, validators, validator_count) ==
    IF validators = <<>> THEN [stmts |-> <<>>, validator_count |-> validator_count]
    ELSE LET validator == Head(validators)
             adds == type \notin ListOrEnumTypes /\ AddsValidator(validator)
             own == IF adds
                    THEN Flatten([i \in DOMAIN validator.arguments |->
                             ArgumentStmts(type, validator.name, validator.arguments[i],
                                           validator_count)])
                         \o << SetTrueStmt(validator_count) >>
                    ELSE <<>>
             rest == ValidatorStmts(type, Tail(validators),
                                    IF adds THEN validator_count + 1 ELSE validator_count)
         IN  [stmts |-> own \o rest.stmts, validator_count |-> rest.validator_count]

\* gen_attr_validator_stmt_list: the statements validate() runs for one
\* attribute, or the panic of an argument that does not parse.
gen_attr_validator_stmt_list(attr) ==
    IF attr.type \notin ListOrEnumTypes /\ \E v \in Range(attr.validators) : ~ArgumentsParse(v)
    THEN GenErr("panic")
    ELSE LET r == ValidatorStmts(attr.type, attr.validators, 0)
         IN  [ok |-> TRUE, required |-> is_validator_required(attr),
              validator_count |-> r.validator_count, stmts |-> r.stmts]

\* A value of an attribute: an integer (i64, i32, ...) or a String.
Number(n) == [kind |-> "number", n |-> n, s |-> <<>>]

String(s) == [kind |-> "string", n |-> 0, s |-> s]

\* The number a generated comparison reads from the attribute's value.
ReadNumber(stmt, value) ==
    IF stmt.via = "len" THEN [ok |-> TRUE, n |-> Len(value.s)]
    ELSE IF stmt.via = "parse" THEN parse_i64(value.s)
    ELSE [ok |-> TRUE, n |-> value.n]

\* One generated statement, run on validator_results.
RunStmt(stmt, value, validator_results) ==
    IF stmt.cmp = "set_true" THEN [validator_results EXCEPT ![stmt.slot + 1] = TRUE]
    ELSE LET n == ReadNumber(stmt, value).n
             hit == IF stmt.cmp = "is_empty" THEN n = 0
                    ELSE IF stmt.cmp = "lt" THEN n < stmt.bound
                    ELSE n > stmt.bound
         IN  IF hit THEN [validator_results EXCEPT ![stmt.slot + 1] = FALSE]
             ELSE validator_results

RECURSIVE RunStmts(_, _, _)
RunStmts(stmts, value, validator_results) ==
    IF stmts = <<>> THEN validator_results
    ELSE RunStmts(Tail(stmts), value, RunStmt(Head(stmts), value, validator_results))

\* validate() of a type with this one attribute and no children: Ok(true),
\* Ok(false), or the Err of a parse::<i64>()? that fails.
validate(plan, field) ==
    IF plan.validator_count = 0 \/ (~plan.required /\ field = <<>>)
    THEN "true"
    ELSE LET value == field[1]
         IN  IF \E stmt \in Range(plan.stmts) :
                    stmt.cmp # "set_true" /\ ~ReadNumber(stmt, value).ok
             THEN "err"
             ELSE LET validator_results ==
                          RunStmts(plan.stmts, value,
                                   [i \in 1..plan.validator_count |-> TRUE])
                  IN  IF ~(\E i \in DOMAIN validator_results : validator_results[i])
                      THEN "false"
                      ELSE "true"

-----------------------------------------------------------------------------
(* The attributes validate() is generated for and run on.                   *)

MaxValidators == 2  \* String/Number validators on one attribute

Argument(name, value) == [name |-> name, value |-> value]

Validator(name, arguments) == [name |-> name, arguments |-> arguments]

NumberValidators ==
    { Validator("NumberValidator", <<Argument("MinInclusive", <<"0">>)>>),
      Validator("NumberValidator", <<Argument("MaxInclusive", <<"1", "0">>)>>),
      Validator("NumberValidator", <<Argument("MinInclusive", <<"1", "5">>)>>),
      Validator("NumberValidator", <<Argument("MinInclusive", <<"0">>),
                                     Argument("MaxInclusive", <<"1", "0">>)>>) }

StringValidators ==
    { Validator("StringValidator", <<Argument("MinLength", <<"0">>)>>),
      Validator("StringValidator", <<Argument("MinLength", <<"1">>)>>),
      Validator("StringValidator", <<Argument("MinLength", <<"2">>)>>),
      Validator("StringValidator", <<Argument("MaxLength", <<"1">>)>>) }

Numbers == { Number(n) : n \in {0 - 5, 5, 12, 20} }

NumberTexts ==
    { String(s) : s \in { <<>>, <<"5">>, <<"-", "5">>, <<"1", "2">>, <<"2", "0">>, <<"a">> } }

\* The validators that the attribute's type admits, and the values of the type.
ValidatorsFor(type) ==
    IF type \in {"Int64Value", "Int32Value"} THEN NumberValidators
    ELSE NumberValidators \cup StringValidators

ValuesOf(type) ==
    IF type \in {"Int64Value", "Int32Value"} THEN Numbers ELSE NumberTexts

ValCases ==
    { [kind |-> "case",
       attr |-> [ q_name |-> [pfx |-> "w", loc |-> "val"], property_name |-> "",
                  type |-> type, version |-> "",
                  validators |-> (IF required
                                  THEN << Validator("RequiredValidator", <<>>) >>
                                  ELSE <<>>) \o vs ],
       value |-> value,
       plan |-> <<>>] :
        type \in {"Int64Value", "Int32Value", "StringValue", "ListValue<StringValue>"},
        required \in BOOLEAN,
        vs \in SeqsUpTo(NumberValidators \cup StringValidators, MaxValidators),
        value \in { <<>> } \cup { <<x>> : x \in Numbers \cup NumberTexts } }

\* The cases the generated code compiles for and a caller can build: the
\* validators suit the type, the value is of the type, and a required
\* attribute has a value.
WellTyped(c) ==
    /\ \A v \in Range(c.attr.validators) :
           v.name = "RequiredValidator" \/ v \in ValidatorsFor(c.attr.type)
    /\ c.value # <<>> => c.value[1] \in ValuesOf(c.attr.type)
    /\ is_validator_required(c.attr) => c.value # <<>>

\* gen_validators: the attribute statements of the type's validate().
GenAttrValidators ==
    /\ valCase # Idle
    /\ valCase.plan = <<>>
    /\ gen_attr_validator_stmt_list(valCase.attr).ok
    /\ valCase' = [valCase EXCEPT !.plan = << gen_attr_validator_stmt_list(valCase.attr) >>]
    /\ UNCHANGED <<valResult, pkgVars, genVars, codecVars>>

\* A call of the generated validate().
Validate ==
    /\ valCase # Idle
    /\ valCase.plan # <<>>
    /\ valResult = Idle
    /\ valResult' = [kind |-> "returned", result |-> validate(valCase.plan[1], valCase.value)]
    /\ UNCHANGED <<valCase, pkgVars, genVars, codecVars>>

InitVal ==
    /\ valCase \in { c \in ValCases : WellTyped(c) }
    /\ valResult = Idle
    /\ IdlePkg /\ IdleGen /\ IdleCodec

NextVal ==
    \/ GenAttrValidators
    \/ Validate

SpecVal == InitVal /\ [][NextVal]_vars

-----------------------------------------------------------------------------
(* Properties of the generated validate().                                  *)

\* The String/Number validators configured on the attribute.
Configured(attr) ==
    { i \in DOMAIN attr.validators : AddsValidator(attr.validators[i]) }

\* The value satisfies one bound of a validator.
Satisfies(argument, value) ==
    LET length == Len(value.s)
        number == IF value.kind = "number" THEN value.n ELSE parse_i64(value.s).n
        bound == parse_i64(argument.value).n
    IN  IF argument.name = "MinLength" THEN length >= bound
        ELSE IF argument.name = "MaxLength" THEN length <= bound
        ELSE IF argument.name = "MinInclusive" THEN number >= bound
        ELSE IF argument.name = "MaxInclusive" THEN number <= bound
        ELSE TRUE

\* The validator passes on the value: every bound it configures holds.
Passes(validator, value) ==
    \A a \in Range(validator.arguments) : Satisfies(a, value)

\* validate() was run on a value that all the configured validators can read.
Validated ==
    /\ valResult # Idle
    /\ valCase.value # <<>>
    /\ valCase.attr.type \notin ListOrEnumTypes
    /\ Configured(valCase.attr) # {}
    /\ valResult.result # "err"

\* C3: for an attribute with one or more configured String/Number
\* validators, validate() returns true iff at least one configured
\* validator passes on the attribute's value: true when one passes and
\* another fails, false when the value fails every configured validator.
C3_ValidatorOrSemantics ==
    Validated =>
        (valResult.result = "true" <=>
            \E i \in Configured(valCase.attr) :
                Passes(valCase.attr.validators[i], valCase.value[1]))

\* The half of the claim that the code keeps: a value that passes one of
\* the configured validators is valid.
PassingOneIsValid ==
    (Validated /\ \E i \in Configured(valCase.attr) :
                      Passes(valCase.attr.validators[i], valCase.value[1]))
        => valResult.result = "true"

-----------------------------------------------------------------------------
(* Properties of the schema compiler: unresolved references.                *)

\* The namespace record of a schema of the description.
NamespaceOf(input, schema) ==
    input.namespaces[CHOOSE n \in DOMAIN input.namespaces :
        input.namespaces[n].uri = schema.target_namespace]

\* The types that survive version gating: the type's own version tag and
\* the version tag of its schema's namespace are enabled.
SurvivingTypes ==
    UNION { { t.name : t \in { u \in Range(schema.types) : ~NotEnabled(u.version) } } :
              schema \in { sc \in Range(genInput.schemas) :
                              ~NotEnabled(NamespaceOf(genInput, sc).version) } }

\* Every reference of the description names something the description
\* declares: child references and particle items name declared types, a
\* particle item is among the children of its type.
AllReferencesDeclared ==
    LET all == AllTypes(genInput.schemas)
    IN  \A t \in Range(all) :
            /\ \A c \in Range(t.children) : HasNamed(all, c.name)
            /\ \A p \in Range(t.particle.items) :
                   p.kind = "" => InChildMap(t, p.name)

TasksStarted == genOut # Idle

\* C11: after the version filter of GenContext::new every child reference
\* that remains in a surviving type names a type that survived as well (own
\* version tag and namespace version enabled); a reference to a type removed
\* by version gating never ends a generator in a missing-symbol error.
C11_PostFilterConsistency ==
    ContextBuilt =>
        /\ \A schema \in Range(genContext.schemas) : \A t \in Range(schema.types) :
               \A c \in Range(t.children) : c.name \in SurvivingTypes
        /\ (TasksStarted /\ AllReferencesDeclared) =>
               \A task \in Tasks : genOut[task].status # "err"

\* C12: a lookup of a key that is absent from a symbol table, in
\* GenContext::new or in a generator, ends in a returned
\* HashMapExpectedSomeError and never in a panic.
C12_MissingSymbolsAreErrors ==
    /\ genContext # Idle => genContext.kind # "panic"
    /\ TasksStarted => \A task \in Tasks : genOut[task].status # "panic"

\* generate_with has returned: every task has ended.
GenerateReturned ==
    /\ ContextBuilt
    /\ TasksStarted
    /\ \A task \in Tasks : genOut[task].status # "todo"

\* C13: if generate_with returns an error because a schema module refers to
\* an unresolved symbol, no generated file (a module of schemas,
\* deserializers, serializers, parts or validators, an included file or a
\* mod.rs) has been written under out_dir by any task.
C13_NoPartialOutput ==
    (GenerateReturned /\ \E task \in Tasks : genOut[task].status = "err")
        => \A task \in Tasks :
               /\ genOut[task].files = <<>>
               /\ ~genOut[task].mod_rs
               /\ ~genOut[task].includes


-----------------------------------------------------------------------------
(* includes/packages: the readers and writers written by hand for           *)
(* [Content_Types].xml and the .rels files.  A reader is described by the   *)
(* element it expects, the attributes it keeps (in the order it unwraps     *)
(* the required ones), the children its loop hands on and the text of the   *)
(* error it raises for any other child.                                     *)

PackageAttr(key, field, required) == [key |-> key, field |-> field, required |-> required]

PackageReaders ==
    [ Relationships |->
          [ loop |-> TRUE, attrs |-> <<>>, arms |-> <<"Relationship">>,
            unknown |-> "Types",
            uri |-> "http://schemas.openxmlformats.org/package/2006/relationships" ],
      Relationship |->
          [ loop |-> FALSE,
            attrs |-> << PackageAttr("TargetMode", "target_mode", FALSE),
                         PackageAttr("Target", "target", TRUE),
                         PackageAttr("Type", "type", TRUE),
                         PackageAttr("Id", "id", TRUE) >>,
            arms |-> <<>>, unknown |-> "", uri |-> "" ],
      Types |->
          [ loop |-> TRUE, attrs |-> <<>>, arms |-> <<"Default", "Override">>,
            unknown |-> "Types",
            uri |-> "http://schemas.openxmlformats.org/package/2006/content-types" ],
      Default |->
          [ loop |-> FALSE,
            attrs |-> << PackageAttr("Extension", "extension", TRUE),
                         PackageAttr("ContentType", "content_type", TRUE) >>,
            arms |-> <<>>, unknown |-> "", uri |-> "" ],
      Override |->
          [ loop |-> FALSE,
            attrs |-> << PackageAttr("ContentType", "content_type", TRUE),
                         PackageAttr("PartName", "part_name", TRUE) >>,
            arms |-> <<>>, unknown |-> "", uri |-> "" ] ]

PackageRoots == {"Relationships", "Types"}

PackageTag(tag, with_xmlns) == [pfx |-> IF with_xmlns THEN "w" ELSE "", loc |-> tag]

PackageField(field) == [pfx |-> "", loc |-> field]

PackageFields(name) ==
    IF PackageReaders[name].loop
    THEN { XmlnsFields[i].name : i \in 1..3 } \cup { ChildrenField.name }
    ELSE { PackageField(PackageReaders[name].attrs[i].field) :
               i \in DOMAIN PackageReaders[name].attrs }

\* Relationship::to_string_inner, Default::write_xml, Override::write_xml:
\* the attributes in the order of the struct, then "/>".
package_leaf_write_xml(v, with_xmlns) ==
    LET attrs == PackageReaders[v.type.loc].attrs
    IN  <<Chunk("open", PackageTag(v.type.loc, with_xmlns), <<>>)>>
        \o Flatten([i \in DOMAIN attrs |->
               IF v.f[PackageField(attrs[i].field)] = <<>> THEN <<>>
               ELSE <<Chunk("attr", PackageField(attrs[i].key),
                            escape(v.f[PackageField(attrs[i].field)][1]))>>])
        \o <<Chunk("sgt", NoName, <<>>)>>

\* Relationships::to_string_inner and Types::write_xml.
package_write_xml(v, with_xmlns) ==
    XmlHeader
    \o <<Chunk("open", PackageTag(v.type.loc, with_xmlns), <<>>)>>
    \o (IF v.f[XmlnsFields[1].name] = <<>> THEN <<>>
        ELSE <<Chunk("attr", XmlnsKey, v.f[XmlnsFields[1].name][1])>>)
    \o (LET kv == IterationOrder(v.f[XmlnsFields[2].name])
        IN  [i \in DOMAIN kv |->
               Chunk("attr", [pfx |-> "xmlns", loc |-> kv[i][1]], kv[i][2])])
    \o (IF v.f[XmlnsFields[3].name] = <<>> THEN <<>>
        ELSE <<Chunk("attr", McIgnorableKey, v.f[XmlnsFields[3].name][1])>>)
    \o <<Chunk("gt", NoName, <<>>)>>
    \o (LET cs == v.f[ChildrenField.name]
        IN  Flatten([j \in DOMAIN cs |-> package_leaf_write_xml(cs[j], with_xmlns)]))
    \o <<Chunk("close", PackageTag(v.type.loc, with_xmlns), <<>>)>>

\* Relationships::to_xml and Types::to_xml.
package_to_xml(v) ==
    package_write_xml(v,
        \/ v.f[XmlnsFields[1].name] = <<>>
        \/ v.f[XmlnsFields[1].name][1] # <<PackageReaders[v.type.loc].uri>>)

\* The `for attr in e.attributes()` loop of a reader written by hand.
RECURSIVE package_attr_match(_, _, _)
package_attr_match(name, f, attrs) ==
    IF attrs = <<>> THEN [ok |-> TRUE, f |-> f]
    ELSE LET attr == Head(attrs)
             value == unescape(attr.value)
             plan == PackageReaders[name]
             hits == { i \in DOMAIN plan.attrs : PackageField(plan.attrs[i].key) = attr.key }
             slot == IF hits # {}
                     THEN PackageField(plan.attrs[CHOOSE i \in hits : TRUE].field)
                     ELSE IF ~plan.loop THEN NoName
                     ELSE IF attr.key = XmlnsKey THEN XmlnsFields[1].name
                     ELSE IF attr.key = McIgnorableKey THEN XmlnsFields[3].name
                     ELSE IF attr.key.pfx = "xmlns" THEN XmlnsFields[2].name
                     ELSE NoName
         IN  IF slot = NoName THEN package_attr_match(name, f, Tail(attrs))
             ELSE IF ~value.ok THEN [ok |-> FALSE, f |-> f]
             ELSE IF slot = XmlnsFields[2].name
             THEN package_attr_match(name,
                      [f EXCEPT ![slot] = { kv \in @ : kv[1] # attr.key.loc }
                                          \cup { <<attr.key.loc, value.s>> }],
                      Tail(attrs))
             ELSE package_attr_match(name, [f EXCEPT ![slot] = <<value.s>>], Tail(attrs))

\* deserialize_inner of Relationships, Relationship, Types, Default and
\* Override, with the read loop of the two that have children.
RECURSIVE package_deserialize_inner(_, _, _)
RECURSIVE package_read_loop(_, _, _)
package_deserialize_inner(name, events, xml_event) ==
    LET plan == PackageReaders[name]
        start == expect_event_start(events, xml_event,
                     PackageTag(name, TRUE), PackageTag(name, FALSE))
    IN  IF ~start.ok THEN Failed(start.err, start.rest)
        ELSE LET f0 == [n \in PackageFields(name) |->
                           IF n = XmlnsFields[2].name THEN {} ELSE <<>>]
                 attrs == package_attr_match(name, f0, start.e.attrs)
             IN  IF ~attrs.ok THEN Failed(QuickXmlError, start.rest)
                 ELSE LET body == IF plan.loop /\ ~start.empty_tag
                                  THEN package_read_loop(name, attrs.f, start.rest)
                                  ELSE [ok |-> TRUE, f |-> attrs.f, err |-> NoError,
                                        rest |-> start.rest]
                          missing == { i \in DOMAIN plan.attrs :
                                         /\ plan.attrs[i].required
                                         /\ body.f[PackageField(plan.attrs[i].field)] = <<>> }
                      IN  IF ~body.ok THEN Failed(body.err, body.rest)
                          ELSE IF missing # {}
                          THEN LET i == CHOOSE i \in missing : \A j \in missing : i <= j
                               IN  Failed(CommonError(PackageField(plan.attrs[i].field)),
                                          body.rest)
                          ELSE Returned([type |-> TypeName("", "", name), f |-> body.f],
                                        body.rest)

package_read_loop(name, f, events) ==
    IF events = <<>>
    THEN [ok |-> FALSE, f |-> f, err |-> UnknownError, rest |-> <<>>]
    ELSE LET ev == Head(events)
             plan == PackageReaders[name]
             hits == { i \in DOMAIN plan.arms :
                         ev.name \in { PackageTag(plan.arms[i], TRUE),
                                       PackageTag(plan.arms[i], FALSE) } }
         IN  IF ev.k \in {"Start", "Empty"}
             THEN IF hits = {}
                  THEN [ok |-> FALSE, f |-> f,
                        err |-> CommonError(PackageField(plan.unknown)),
                        rest |-> Tail(events)]
                  ELSE LET child == package_deserialize_inner(
                                        plan.arms[CHOOSE i \in hits : TRUE], Tail(events),
                                        << [e |-> ev, empty_tag |-> ev.k = "Empty"] >>)
                       IN  IF ~child.ok
                           THEN [ok |-> FALSE, f |-> f, err |-> child.err,
                                 rest |-> child.rest]
                           ELSE package_read_loop(name,
                                    [f EXCEPT ![ChildrenField.name] = Append(@, child.value)],
                                    child.rest)
             ELSE IF ev.k = "End" /\ ev.name \in {PackageTag(name, TRUE), PackageTag(name, FALSE)}
             THEN [ok |-> TRUE, f |-> f, err |-> NoError, rest |-> Tail(events)]
             ELSE package_read_loop(name, f, Tail(events))


-----------------------------------------------------------------------------
(* Documents that did not come out of this SDK: what a program reads with   *)
(* from_str may be cut short, may lack attributes or child elements, and    *)
(* may hold elements the schema does not declare.                           *)

nSect == TypeName("w:CT_SectPr", "w", "sectPr")

\* A flattened type with two required attributes and two required children.
tSect ==
    SchemaType(nSect, "SectionProperties", "OpenXmlCompositeElement", "OneSequence",
               <<Attr("w", "id", TRUE), Attr("w", "rsid", TRUE)>>,
               <<Child(nR), Child(nT)>>,
               Group("Sequence", <<Leaf(nR, <<>>, ""), Leaf(nT, <<>>, "")>>))

ReadSchemas ==
    [BaseSchemas EXCEPT
        ![1].types = <<tDocument, BodyWith(nSect), tP, tR, tT, tOnOff, tB, tSect>>]

ReadInput == Input({}, {"docx", "xlsx"}, ReadSchemas, BaseParts("", ""))

\* The chunk that ends the element opened at chunk i: its "/>" or its
\* close tag.
RECURSIVE CloseOf(_, _, _)
CloseOf(chunks, i, depth) ==
    IF chunks[i].k = "open" THEN CloseOf(chunks, i + 1, depth + 1)
    ELSE IF chunks[i].k \in {"sgt", "close"}
    THEN IF depth = 1 THEN i ELSE CloseOf(chunks, i + 1, depth - 1)
    ELSE CloseOf(chunks, i + 1, depth)

ElementEnd(chunks, i) == CloseOf(chunks, i, 0)

Span(chunks, i) == i..ElementEnd(chunks, i)

Opens(chunks) == { i \in DOMAIN chunks : chunks[i].k = "open" }

RootOpen(chunks) == CHOOSE i \in Opens(chunks) : \A j \in Opens(chunks) : i <= j

\* The attributes of the element opened at i, and its child elements.
AttrsAt(chunks, i) ==
    { j \in DOMAIN chunks : /\ j > i
                            /\ \A k \in (i + 1)..j : chunks[k].k = "attr" }

ChildOpens(chunks, i) ==
    { j \in Opens(chunks) \cap Span(chunks, i) :
          /\ j # i
          /\ \A k \in Opens(chunks) : (i < k /\ k < j) => ElementEnd(chunks, k) < j }

RECURSIVE Without(_, _, _)
Without(chunks, R, i) ==
    IF i > Len(chunks) THEN <<>>
    ELSE (IF i \in R THEN <<>> ELSE <<chunks[i]>>) \o Without(chunks, R, i + 1)

UnknownTag == [pfx |-> "w", loc |-> "zzz"]

Edited(edit, chunks) == [edit |-> edit, xml |-> chunks]

\* The text cut after any of its tags or character data.
Truncations(chunks) ==
    { Edited("truncate", SubSeq(chunks, 1, k)) :
          k \in { k \in 0..(Len(chunks) - 1) :
                      k = 0 \/ chunks[k].k \notin {"open", "attr"} } }

\* Attributes and child elements of the root element removed, or attributes
\* of one of its children.
Drops(chunks) ==
    LET root == RootOpen(chunks)
    IN  { Edited("drop",
                 Without(chunks, ac[1] \cup UNION { Span(chunks, j) : j \in ac[2] }, 1)) :
              ac \in { ac \in (SUBSET AttrsAt(chunks, root))
                                \X (SUBSET ChildOpens(chunks, root)) :
                           ac[1] \cup ac[2] # {} } }
        \cup
        { Edited("drop_nested", Without(chunks, A, 1)) :
              A \in UNION { SUBSET AttrsAt(chunks, j) \ {{}} :
                                j \in ChildOpens(chunks, root) } }

\* An element no schema declares as the first child of the root element;
\* or an empty element of the root's own name there, with the text cut after
\* it or left whole.
Insertions(chunks) ==
    LET gt == CHOOSE i \in DOMAIN chunks :
                  /\ i > RootOpen(chunks)
                  /\ chunks[i].k \in {"gt", "sgt"}
                  /\ \A j \in (RootOpen(chunks) + 1)..(i - 1) : chunks[j].k = "attr"
    IN  IF chunks[gt].k = "sgt" THEN {}
        ELSE { Edited("insert",
                   SubSeq(chunks, 1, gt)
                   \o <<Chunk("open", UnknownTag, <<>>), Chunk("sgt", NoName, <<>>)>>
                   \o SubSeq(chunks, gt + 1, Len(chunks))),
               Edited("nest",
                   SubSeq(chunks, 1, gt)
                   \o <<Chunk("open", chunks[RootOpen(chunks)].name, <<>>),
                        Chunk("gt", NoName, <<>>),
                        Chunk("close", chunks[RootOpen(chunks)].name, <<>>)>>),
               Edited("nest_whole",
                   SubSeq(chunks, 1, gt)
                   \o <<Chunk("open", chunks[RootOpen(chunks)].name, <<>>),
                        Chunk("gt", NoName, <<>>),
                        Chunk("close", chunks[RootOpen(chunks)].name, <<>>)>>
                   \o SubSeq(chunks, gt + 1, Len(chunks))) }

\* A child element of the root element written a second time, right after
\* itself.
Repeats(chunks) ==
    { Edited("repeat",
             SubSeq(chunks, 1, ElementEnd(chunks, j))
             \o SubSeq(chunks, j, ElementEnd(chunks, j))
             \o SubSeq(chunks, ElementEnd(chunks, j) + 1, Len(chunks))) :
          j \in ChildOpens(chunks, RootOpen(chunks)) }

Edits(chunks) ==
    {Edited("none", chunks)} \cup Truncations(chunks) \cup Drops(chunks)
    \cup Insertions(chunks) \cup Repeats(chunks)

\* The package files that are read: instances of Relationships and Types.
PackageLeafInstances(name) ==
    LET attrs == PackageReaders[name].attrs
    IN  { [type |-> TypeName("", "", name),
           f |-> [n \in PackageFields(name) |->
                     IF \E i \in DOMAIN attrs :
                            PackageField(attrs[i].field) = n /\ ~attrs[i].required
                     THEN opt ELSE <<<<"a">>>>]] :
              opt \in { <<>>, <<<<"External">>>> } }

PackageInstances(name) ==
    LET plan == PackageReaders[name]
    IN  { [type |-> TypeName("", "", name),
           f |-> [n \in PackageFields(name) |->
                     CASE n = XmlnsFields[1].name -> xmlns
                       [] n = XmlnsFields[2].name -> map
                       [] n = XmlnsFields[3].name -> <<>>
                       [] OTHER -> children]] :
              xmlns \in { <<>>, << <<plan.uri>> >> },
              map \in XmlnsMaps,
              children \in SeqsUpTo(UNION { PackageLeafInstances(plan.arms[i]) :
                                                i \in DOMAIN plan.arms }, 1) }

\* A document arrives: the text an instance was written as, then edited.
Receive ==
    /\ Generated_all
    /\ origin = Idle
    /\ \/ LET st == genOut["schemas"].files
              ser == genOut["serializers"].files
          IN  \E name \in { it.name : it \in Range(ItemsOf(ser)) } :
                \E v \in Instances(st, name, FALSE) :
                  \E d \in Edits(to_xml(ser, v)) :
                     origin' = [kind |-> "text", build |-> genInput.features,
                                value |-> v, xml |-> d.xml, edit |-> d.edit]
       \/ \E name \in PackageRoots :
            \E v \in PackageInstances(name) :
              \E d \in Edits(package_to_xml(v)) :
                 origin' = [kind |-> "text", build |-> genInput.features,
                            value |-> v, xml |-> d.xml, edit |-> d.edit]
    /\ UNCHANGED <<reader, outcome, pkgVars, genVars, valVars>>

\* Relationships::from_str(xml) and Types::from_str(xml).
PackageFromStr ==
    /\ origin # Idle
    /\ outcome = Idle
    /\ \E name \in PackageRoots :
          LET r == package_deserialize_inner(name, Tokenise(origin.xml), <<>>)
          IN  /\ outcome' = [kind |-> "returned", target |-> TypeName("", "", name),
                             ok |-> r.ok, value |-> r.value, err |-> r.err]
              /\ reader' = [kind |-> "read", events |-> r.rest]
    /\ UNCHANGED <<origin, pkgVars, genVars, valVars>>

InitRead ==
    /\ genInput = ReadInput
    /\ genContext = Idle
    /\ genOut = Idle
    /\ IdlePkg /\ IdleCodec /\ IdleVal

NextRead ==
    \/ NewGenContext
    \/ WriteSchemas
    \/ WriteDeserializers
    \/ WriteSerializers
    \/ WriteParts
    \/ WriteValidators
    \/ Receive
    \/ FromStr
    \/ PackageFromStr

SpecRead == InitRead /\ [][NextRead]_vars


-----------------------------------------------------------------------------
(* Properties of the readers on documents that arrive from elsewhere.       *)

\* The type of a reader written by hand.
IsPackageType(name) == name.first = "" /\ name.loc # ""

TagsOf(name) ==
    IF IsPackageType(name) THEN {PackageTag(name.loc, TRUE), PackageTag(name.loc, FALSE)}
    ELSE {PrefixedTag(name), BareTag(name)}

\* The child elements a type declares.
DeclaredChildren(name) ==
    IF IsPackageType(name)
    THEN [i \in DOMAIN PackageReaders[name.loc].arms |->
             TypeName("", "", PackageReaders[name.loc].arms[i])]
    ELSE [i \in DOMAIN Named(AllTypes(genInput.schemas), name).children |->
             Named(AllTypes(genInput.schemas), name).children[i].name]

Requirement(name, attr, keys) == [name |-> name, attr |-> attr, keys |-> keys]

\* The fields of a type that an element must set, in the order in which
\* they are looked for: the Required flattened children in particle order,
\* then the attributes under a RequiredValidator in schema order (a derived
\* type's own, then its base's); for a package type its required attributes
\* in the order of the struct.
RequiredFields(name) ==
    IF IsPackageType(name)
    THEN LET req == SelectSeq(PackageReaders[name.loc].attrs, LAMBDA a : a.required)
         IN  [i \in DOMAIN req |->
                Requirement(PackageField(req[i].field), TRUE, {PackageField(req[i].key)})]
    ELSE LET all == AllTypes(genInput.schemas)
             t == Named(all, name)
             items == IF FlattenTest(t)
                         /\ t.base_class \notin {"OpenXmlLeafTextElement", "OpenXmlLeafElement"}
                      THEN SelectSeq(t.particle.items,
                               LAMBDA p : ClaimedOccurrence(p) = "Required")
                      ELSE <<>>
             attributes == t.attributes
                           \o (IF t.is_derived
                               THEN Named(all, BaseTypeName(name.first)).attributes
                               ELSE <<>>)
             req == SelectSeq(attributes,
                        LAMBDA a : \E v \in Range(a.validators) : v.name = "RequiredValidator")
         IN  [i \in DOMAIN items |->
                Requirement(PrefixedTag(items[i].name), FALSE, TagsOf(items[i].name))]
             \o [i \in DOMAIN req |-> Requirement(req[i].q_name, TRUE, {req[i].q_name})]

\* Does the element opened at chunk i set the field?
SetBy(chunks, i, field) ==
    IF field.attr THEN \E j \in AttrsAt(chunks, i) : chunks[j].name \in field.keys
    ELSE \E j \in ChildOpens(chunks, i) : chunks[j].name \in field.keys

\* The name of the first missing field met when the element opened at
\* chunk i is read as a `name`: that of the first of its child elements to
\* lack one, else its own; <<>> when nothing is missing.
RECURSIVE FirstIncomplete(_, _, _)
FirstIncomplete(chunks, i, name) ==
    LET decl == DeclaredChildren(name)
        TypeOf(j) == decl[CHOOSE d \in DOMAIN decl :
                            /\ chunks[j].name \in TagsOf(decl[d])
                            /\ \A c \in 1..(d - 1) : chunks[j].name \notin TagsOf(decl[c])]
        kids == { j \in ChildOpens(chunks, i) :
                      \E d \in DOMAIN decl : chunks[j].name \in TagsOf(decl[d]) }
        bad == { j \in kids : FirstIncomplete(chunks, j, TypeOf(j)) # <<>> }
        req == RequiredFields(name)
        missing == { r \in DOMAIN req : ~SetBy(chunks, i, req[r]) }
    IN  IF bad # {}
        THEN LET j == CHOOSE j \in bad : \A k \in bad : j <= k
             IN  FirstIncomplete(chunks, j, TypeOf(j))
        ELSE IF missing # {}
        THEN <<req[CHOOSE r \in missing : \A q \in missing : r <= q].name>>
        ELSE <<>>

\* from_str has returned for a document whose elements are all closed, and
\* the root element is one of the target type.
ReadWhole ==
    /\ HasReturned
    /\ origin.kind = "text"
    /\ origin.edit \in {"none", "drop", "drop_nested"}
    /\ origin.xml[RootOpen(origin.xml)].name \in TagsOf(outcome.target)

MissingOf(name) == FirstIncomplete(origin.xml, RootOpen(origin.xml), name)

\* C14: when the parse of an element completes (it is self-closing or its
\* End event is met), deserialization succeeds only if the input set every
\* attribute under a RequiredValidator and every Required flattened child;
\* otherwise it fails with a CommonError whose text is the name of the first
\* missing field (children before attributes, each in schema order), and
\* returns no partial value.  The same holds of the package readers.
C14_RequiredFields ==
    (ReadWhole /\ MissingOf(outcome.target) # <<>>)
        => /\ ~outcome.ok
           /\ outcome.err = CommonError(MissingOf(outcome.target)[1])
           /\ outcome.value = NoValue

\* A w:sectPr that lacks a required child and a required attribute has been
\* read, and so has a Relationship that lacks two of its attributes.
C14_Witness ==
    /\ ReadWhole
    /\ outcome.target = nSect
    /\ LET req == RequiredFields(nSect)
       IN  /\ \E r \in DOMAIN req :
                 req[r].attr /\ ~SetBy(origin.xml, RootOpen(origin.xml), req[r])
           /\ \E r \in DOMAIN req :
                 ~req[r].attr /\ ~SetBy(origin.xml, RootOpen(origin.xml), req[r])
    /\ ~outcome.ok


\* The name a type goes by: the class name of a generated type, the struct
\* name of a package type.
TypeLabel(name) ==
    IF IsPackageType(name) THEN name.loc
    ELSE Named(AllTypes(genInput.schemas), name).class_name

\* from_str has returned for a document whose root element, one of the
\* target type, is not self-closing and holds an element that the type
\* does not declare.
ReadUnrecognized ==
    /\ HasReturned
    /\ origin.kind = "text"
    /\ origin.edit = "insert"
    /\ origin.xml[RootOpen(origin.xml)].name \in TagsOf(outcome.target)
    /\ DeclaredChildren(outcome.target) # <<>>

\* C15: inside a non-self-closing element of a type that declares at least
\* one child, a Start or Empty event that matches none of the declared
\* children's tag forms makes deserialization fail with an error that names
\* the enclosing type; this holds of the generated types and of the Types
\* and Relationships readers written by hand.
C15_UnrecognizedChild ==
    ReadUnrecognized
        => /\ ~outcome.ok
           /\ outcome.err = CommonError(PackageField(TypeLabel(outcome.target)))

\* The same of every reader but that of Relationships.
UnrecognizedChildElsewhere ==
    (ReadUnrecognized /\ outcome.target # TypeName("", "", "Relationships"))
        => /\ ~outcome.ok
           /\ outcome.err = CommonError(PackageField(TypeLabel(outcome.target)))


-----------------------------------------------------------------------------
(* Properties of a loaded package.                                          *)

\* The parts of a loaded tree.
RECURSIVE PartNodes(_)
PartNodes(node) ==
    {node} \cup UNION { UNION { PartNodes(node.kids[a][i]) : i \in DOMAIN node.kids[a] } :
                            a \in DOMAIN node.kids }

\* The children a part must have: declared, no data part reference, and
\* with min_occurs_is_non_zero.
MandatoryChildren(part) ==
    { c \in Range(PartTable[part].children) :
          ~c.is_data_part_reference /\ c.min_occurs_is_non_zero }

PackageLoaded == loaded # NotLoaded /\ loaded.kind = "ok"

\* C16: new_from_archive fails when a declared child that is no data part
\* reference and has min_occurs_is_non_zero has no relationship (also when
\* the part has no .rels file at all), whether the child occurs once or has
\* max_occurs_great_than_one: every part of a package that was loaded holds
\* each of its mandatory children.
C16_MandatoryChildParts ==
    PackageLoaded =>
        \A node \in PartNodes(loaded.tree) :
            \A c \in MandatoryChildren(node.part) : node.kids[c.api_name] # <<>>

\* The same of the children that occur at most once.
SingleMandatoryChildParts ==
    PackageLoaded =>
        \A node \in PartNodes(loaded.tree) :
            \A c \in MandatoryChildren(node.part) :
                ~c.max_occurs_great_than_one => node.kids[c.api_name] # <<>>


-----------------------------------------------------------------------------
(* Properties of validate(): its result.                                    *)

\* C17: validate() yields a boolean and never an error, whatever the
\* attribute values are, non-numeric text in a string-typed attribute under
\* a NumberValidator included.
C17_ValidateYieldsBoolean ==
    valResult # Idle => valResult.result \in {"true", "false"}

\* The same of the values that read as numbers.
NumericValidateYieldsBoolean ==
    (valResult # Idle /\ (valCase.value = <<>> \/ valCase.value[1].kind = "number"
                          \/ parse_i64(valCase.value[1].s).ok))
        => valResult.result \in {"true", "false"}


-----------------------------------------------------------------------------
(* Properties of the readers at the end of the input.                       *)

\* The elements still open after the first k chunks.
OpenDepth(chunks, k) ==
    Cardinality({ i \in 1..k : chunks[i].k = "open" })
    - Cardinality({ i \in 1..k : chunks[i].k \in {"sgt", "close"} })

\* Eof comes before any Start or Empty event, or before the End event of
\* the root element.
EofBeforeEnd(chunks) ==
    \/ Opens(chunks) = {}
    \/ \A k \in RootOpen(chunks)..Len(chunks) : OpenDepth(chunks, k) > 0

\* C18: for every finite event stream that ends in Eof deserialize_inner
\* returns a value or an error; when Eof is met before a Start or Empty
\* event, or before the End event of a non-self-closing enclosing element,
\* the result is an error, never a value.
C18_Convergence ==
    (HasReturned /\ origin.kind = "text" /\ EofBeforeEnd(origin.xml)) => ~outcome.ok

\* The same of the documents in which no element holds one of its own name.
ConvergenceUnnested ==
    (HasReturned /\ origin.kind = "text" /\ origin.edit # "nest"
         /\ EofBeforeEnd(origin.xml))
        => ~outcome.ok


-----------------------------------------------------------------------------
(* Properties of the text to_xml writes.                                    *)

Written == origin # Idle /\ origin.kind = "instance"

\* The chunk that ends the start tag opened at chunk i: ">" or "/>".
TagEnd(chunks, i) ==
    CHOOSE g \in DOMAIN chunks :
        /\ g > i
        /\ chunks[g].k \in {"gt", "sgt"}
        /\ \A j \in (i + 1)..(g - 1) : chunks[j].k = "attr"

\* The group an attribute of a start tag belongs to: 1 the type's own
\* attributes, 2 xmlns, 3 the xmlns:* entries, 4 mc:Ignorable.
AttrGroup(key) ==
    IF key = XmlnsKey THEN 2
    ELSE IF key.pfx = "xmlns" THEN 3
    ELSE IF key = McIgnorableKey THEN 4
    ELSE 1

\* The attributes of a type in schema order, a derived type's own first.
SchemaAttributes(name) ==
    LET all == AllTypes(genInput.schemas)
        t == Named(all, name)
        attributes == t.attributes
                      \o (IF t.is_derived
                          THEN Named(all, BaseTypeName(name.first)).attributes
                          ELSE <<>>)
    IN  [i \in DOMAIN attributes |-> attributes[i].q_name]

\* C19: in the start tag written for an instance the type's own attributes
\* come first, in schema order (a derived type's own before its base's),
\* then xmlns, then every xmlns:* entry, then mc:Ignorable; the relative
\* order of these groups is the same for every instance of the type.
C19_AttributeEmissionOrder ==
    Written =>
        /\ \A i \in Opens(origin.xml) :
              \A a, b \in AttrsAt(origin.xml, i) :
                  a < b => AttrGroup(origin.xml[a].name) <= AttrGroup(origin.xml[b].name)
        /\ LET root == RootOpen(origin.xml)
               own == SchemaAttributes(origin.value.type)
           IN  \A a, b \in AttrsAt(origin.xml, root) :
                   (a < b /\ AttrGroup(origin.xml[a].name) = 1
                          /\ AttrGroup(origin.xml[b].name) = 1)
                       => \E m, n \in DOMAIN own :
                              /\ m < n
                              /\ own[m] = origin.xml[a].name
                              /\ own[n] = origin.xml[b].name

\* What is written instead: xmlns, the xmlns:* entries and mc:Ignorable
\* before the type's own attributes.
NamespacesBeforeAttributes ==
    Written =>
        \A i \in Opens(origin.xml) :
            \A a, b \in AttrsAt(origin.xml, i) :
                LET Rank(k) == IF AttrGroup(k) = 1 THEN 5 ELSE AttrGroup(k)
                IN  a < b => Rank(origin.xml[a].name) <= Rank(origin.xml[b].name)

\* The instance holds no child and no text.
NoContent(v) ==
    \A n \in DOMAIN v.f :
        (n \in {XmlContentField.name, ChildrenField.name}
             \/ n \notin ({ XmlnsFields[i].name : i \in 1..3 }
                          \cup Range(SchemaAttributes(v.type))))
            => v.f[n] = <<>>

\* Every element is a self-closing tag, or an open tag ending in ">", the
\* body and a close tag of the same name as the open tag.
Framed(chunks, i) ==
    \/ chunks[TagEnd(chunks, i)].k = "sgt"
    \/ /\ chunks[TagEnd(chunks, i)].k = "gt"
       /\ chunks[ElementEnd(chunks, i)].k = "close"
       /\ chunks[ElementEnd(chunks, i)].name = chunks[i].name

\* C20: every serialized element is either a single self-closing tag,
\* written exactly when the instance has no children and no text content,
\* or an open tag ending in ">", the body, and a close tag whose name is in
\* the same form (prefixed or bare) as the name in the open tag.
C20_ElementFraming ==
    Written =>
        /\ \A i \in Opens(origin.xml) : Framed(origin.xml, i)
        /\ (origin.xml[TagEnd(origin.xml, RootOpen(origin.xml))].k = "sgt")
               <=> NoContent(origin.value)
        /\ \A i \in Opens(origin.xml) :
               origin.xml[TagEnd(origin.xml, i)].k = "gt"
                   => ElementEnd(origin.xml, i) > TagEnd(origin.xml, i) + 1

\* The form of the elements alone.
ElementsAreFramed ==
    Written => \A i \in Opens(origin.xml) : Framed(origin.xml, i)


-----------------------------------------------------------------------------
(* A schema description in which the root element of one part is also a     *)
(* child of another element, and the instances written in its SDK.          *)

\* w:body refers to x:workbook, the root element of the workbook part.
NestSchemas ==
    [BaseSchemas EXCEPT
        ![1].types = <<tDocument, BodyWith(nWorkbook), tP, tR, tT, tOnOff, tB>>]

NestInput == Input({}, {"docx", "xlsx"}, NestSchemas, BaseParts("", ""))

\* An instance is built and x.to_xml() is called in the SDK just generated.
ToXmlGenerated ==
    /\ Generated_all
    /\ origin = Idle
    /\ LET st == genOut["schemas"].files
           ser == genOut["serializers"].files
       IN  \E name \in { it.name : it \in Range(ItemsOf(ser)) } :
             \E v \in Instances(st, name, TRUE) :
                origin' = [kind |-> "instance", build |-> genInput.features,
                           value |-> v, xml |-> to_xml(ser, v)]
    /\ UNCHANGED <<reader, outcome, pkgVars, genVars, valVars>>

InitNest ==
    /\ genInput = NestInput
    /\ genContext = Idle
    /\ genOut = Idle
    /\ IdlePkg /\ IdleCodec /\ IdleVal

NextNest ==
    \/ NewGenContext
    \/ WriteSchemas
    \/ WriteDeserializers
    \/ WriteSerializers
    \/ WriteParts
    \/ WriteValidators
    \/ ToXmlGenerated
    \/ FromStr

SpecNest == InitNest /\ [][NextNest]_vars

\* Is the type the root element of a part?
IsPartRoot(name) ==
    LET t == Named(AllTypes(genInput.schemas), name)
    IN  t.part # "" \/ t.base_class = "OpenXmlPartRootElement"

\* C21: in the text written for an instance tree the XML prolog occurs at
\* most once, only as the very first bytes, and only when the element
\* written at top level is the root element of a part (or a package-level
\* document); it is never written in front of an element that is a nested
\* child of another element.
C21_PrologPlacement ==
    Written =>
        \A i \in DOMAIN origin.xml :
            origin.xml[i].k = "decl" => i = 1 /\ IsPartRoot(origin.value.type)

\* The prolog of the element written at top level.
PrologOfTopLevel ==
    Written => (origin.xml[1].k = "decl" <=> IsPartRoot(origin.value.type))


-----------------------------------------------------------------------------
(* Properties of the readers: what is captured from the start tag and the   *)
(* body of an element.                                                      *)

\* from_str returned a value of a type that carries xmlns, xmlns_map and
\* mc_ignorable.
ReadWithXmlns ==
    /\ HasReturned
    /\ outcome.ok
    /\ XmlnsFields[1].name \in DOMAIN outcome.value.f

\* C22: when a type carrying the xmlns triple is deserialized, the value of
\* the attribute xmlns is stored in xmlns, the value of mc:Ignorable in
\* mc_ignorable, and for every attribute xmlns:P the value is stored in
\* xmlns_map under the key P; attributes that match none of the declared or
\* special-cased names are ignored without error.
C22_NamespaceCapture ==
    ReadWithXmlns =>
        \A i \in DOMAIN FirstStart.attrs :
            LET key == FirstStart.attrs[i].key
                value == unescape(FirstStart.attrs[i].value).s
            IN  /\ key = XmlnsKey => outcome.value.f[XmlnsFields[1].name] = <<value>>
                /\ key = McIgnorableKey => outcome.value.f[XmlnsFields[3].name] = <<value>>
                /\ key.pfx = "xmlns"
                       => <<key.loc, value>> \in outcome.value.f[XmlnsFields[2].name]

\* The same of xmlns and mc:Ignorable alone.
XmlnsAndIgnorableCaptured ==
    ReadWithXmlns =>
        \A i \in DOMAIN FirstStart.attrs :
            LET key == FirstStart.attrs[i].key
                value == unescape(FirstStart.attrs[i].value).s
            IN  /\ key = XmlnsKey => outcome.value.f[XmlnsFields[1].name] = <<value>>
                /\ key = McIgnorableKey => outcome.value.f[XmlnsFields[3].name] = <<value>>


\* from_str returned a value of a leaf-text type (or of a childless derived
\* type whose base is leaf-text).
ReadLeafText ==
    /\ HasReturned
    /\ outcome.ok
    /\ XmlContentField.name \in DOMAIN outcome.value.f

\* The Text events of the document, in order.
TextEventsRead == SelectSeq(Document, LAMBDA ev : ev.k = "Text")

\* C23: for a leaf-text type (or a childless derived type whose base is
\* leaf-text) xml_content after a successful parse is the conversion of the
\* first Text event between the element's start tag and its End; later Text
\* events inside the same element do not change it.
C23_FirstTextIsContent ==
    (ReadLeafText /\ TextEventsRead # <<>>)
        => outcome.value.f[XmlContentField.name] = <<TextEventsRead[1].text>>

\* What is stored instead is the last Text event.
LastTextIsContent ==
    (ReadLeafText /\ TextEventsRead # <<>>)
        => outcome.value.f[XmlContentField.name]
               = <<TextEventsRead[Len(TextEventsRead)].text>>

-----------------------------------------------------------------------------
(* The children of a flattened type, counted over the whole element.        *)

\* How often the root element of the document has a child element that the
\* reader of a flattened type takes for the particle item p.
Occurrences(chunks, p) ==
    Cardinality({ j \in ChildOpens(chunks, RootOpen(chunks)) :
                      chunks[j].name \in TagsOf(p.name) })

\* from_str has returned for a document, all of whose elements are closed,
\* with a root element of the target type, which is flattened.
ReadFlattened ==
    /\ HasReturned
    /\ origin.kind = "text"
    /\ origin.edit \in {"none", "drop", "drop_nested", "repeat"}
    /\ ~IsPackageType(outcome.target)
    /\ origin.xml[RootOpen(origin.xml)].name \in TagsOf(outcome.target)
    /\ LET t == Named(AllTypes(genInput.schemas), outcome.target)
       IN  /\ FlattenTest(t)
           /\ t.base_class \notin {"OpenXmlLeafTextElement", "OpenXmlLeafElement"}

FlattenedItems == Named(AllTypes(genInput.schemas), outcome.target).particle.items

\* C24: for a flattened type, deserialization enforces each field's
\* cardinality over the whole child sequence: an input is accepted only if
\* every Required child occurs exactly once and every Optional child at most
\* once, and the field of a Repeated child then holds as many values as the
\* child has occurrences.
C24_FlattenedCardinality ==
    (ReadFlattened /\ outcome.ok)
        => \A i \in DOMAIN FlattenedItems :
              LET p == FlattenedItems[i]
                  n == Occurrences(origin.xml, p)
              IN  CASE ClaimedOccurrence(p) = "Required" -> n = 1
                    [] ClaimedOccurrence(p) = "Optional" -> n <= 1
                    [] OTHER -> TRUE

\* What the readers do enforce: a Required child occurs at least once.
RequiredChildOccurs ==
    (ReadFlattened /\ outcome.ok)
        => \A i \in DOMAIN FlattenedItems :
              ClaimedOccurrence(FlattenedItems[i]) = "Required"
                  => Occurrences(origin.xml, FlattenedItems[i]) >= 1

-----------------------------------------------------------------------------
(* The child dispatch table of a generated read loop.                       *)

\* The read loops that were generated with arms for child elements.
DispatchTables ==
    IF genOut = Idle \/ genOut["deserializers"].status # "ok" THEN {}
    ELSE { it \in Range(ItemsOf(genOut["deserializers"].files)) :
               it.out.ok /\ it.out.arms # <<>> }

LocalName(name) == split_last_name(name)[2]

\* The tag forms under which a table dispatches to the child.
TagsBoundTo(arms, child) ==
    UNION { arms[i].tags : i \in { i \in DOMAIN arms : arms[i].child = child } }

\* C25: in the child dispatch table generated for any type, no tag form is
\* bound to more than one child; a child whose local name no earlier declared
\* child of the type has matches its bare and its qualified name, every
\* other child its qualified name only.
C25_UnambiguousDispatch ==
    \A it \in DispatchTables :
        LET arms == it.out.arms
            decl == Named(AllTypes(genInput.schemas), it.name).children
        IN  /\ \A i, j \in DOMAIN arms :
                  arms[i].tags \cap arms[j].tags # {} => arms[i].child = arms[j].child
            /\ \A i \in DOMAIN arms :
                  \A d \in DOMAIN decl :
                     decl[d].name = arms[i].child
                       => TagsBoundTo(arms, arms[i].child)
                            = {PrefixedTag(decl[d].name)}
                              \cup (IF \E c \in 1..(d - 1) :
                                         LocalName(decl[c].name) = LocalName(decl[d].name)
                                    THEN {} ELSE {BareTag(decl[d].name)})

\* The same with the children taken in the order of the arms of the table:
\* that of the particle's items for a flattened type, that of the declared
\* children for the others.
DispatchInArmOrder ==
    \A it \in DispatchTables :
        LET arms == it.out.arms
        IN  /\ \A i, j \in DOMAIN arms :
                  arms[i].tags \cap arms[j].tags # {} => arms[i].child = arms[j].child
            /\ \A i \in DOMAIN arms :
                  arms[i].tags
                     = {PrefixedTag(arms[i].child)}
                       \cup (IF \E c \in 1..(i - 1) :
                                  LocalName(arms[c].child) = LocalName(arms[i].child)
                             THEN {} ELSE {BareTag(arms[i].child)})

\* A table was generated in which a later arm shares its local name with an
\* earlier one and matches its qualified name only.
DispatchWitness ==
    \E it \in DispatchTables :
        \E i, j \in DOMAIN it.out.arms :
            /\ i < j
            /\ it.out.arms[i].child # it.out.arms[j].child
            /\ LocalName(it.out.arms[i].child) = LocalName(it.out.arms[j].child)
            /\ it.out.arms[j].tags = {PrefixedTag(it.out.arms[j].child)}

-----------------------------------------------------------------------------
(* The fields of a derived type.                                            *)

DerivedTypes ==
    { t \in HandedTypes :
          /\ t.is_derived
          /\ t.base_class \notin CompositeClasses
                                  \cup {"OpenXmlLeafTextElement", "OpenXmlLeafElement"}
          /\ \E b \in HandedTypes : b.name = BaseTypeName(t.name.first) }

BaseOf(t) == CHOOSE b \in HandedTypes : b.name = BaseTypeName(t.name.first)

\* Kind and name of each field of a list, in order.
Shape(fields) == [i \in DOMAIN fields |-> <<fields[i].kind, fields[i].name>>]

\* The field list the specification gives a derived type.
ClaimedDerivedFields(t) ==
    LET b == BaseOf(t)
        from == IF t.children # <<>> THEN t ELSE b
    IN  AttrFields(t.attributes) \o AttrFields(b.attributes)
        \o (IF from.children = <<>> THEN <<>>
            ELSE IF FlattenTest(from) THEN gen_one_sequence_fields(from)
            ELSE <<ChildrenField>>)
        \o (IF t.children = <<>> /\ b.base_class = "OpenXmlLeafTextElement"
            THEN <<XmlContentField>> ELSE <<>>)

\* The fields a generator's output for a type refers to, by kind and name.
FieldsUsed(task, name) ==
    LET out == OutOf(task, name)
    IN  Range(Shape(out.fields))
        \cup (IF task \in {"serializers", "validators"}
              THEN Range(Shape(AttrFields(out.attributes))) ELSE {})

StructFields(name) == Range(Shape(OutOf("schemas", name).fields))

\* C26: the struct generated for a derived type has its own attributes, then
\* the base type's, then the children representation of a composite type,
\* taken from the base type when the derived type declares no children, then
\* xml_content when it has no children and its base is a leaf-text type; and
\* the deserializer, serializer and validator generated for it use these
\* fields: the deserializer (but for the namespace declarations it may hold)
\* and the serializer all of them, the validator all but xml_content.
C26_DerivedFieldList ==
    \A t \in DerivedTypes :
        GeneratedByAll(t.name)
            => /\ Shape(OutOf("schemas", t.name).fields) = Shape(ClaimedDerivedFields(t))
               /\ FieldsUsed("deserializers", t.name) \ Range(Shape(XmlnsFields))
                      = StructFields(t.name)
               /\ FieldsUsed("serializers", t.name) = StructFields(t.name)
               /\ FieldsUsed("validators", t.name)
                      = StructFields(t.name) \ Range(Shape(<<XmlContentField>>))

\* The struct and the deserializer of a derived type do agree.
DerivedStructIsRead ==
    \A t \in DerivedTypes :
        GeneratedByAll(t.name)
            => FieldsUsed("deserializers", t.name) \ Range(Shape(XmlnsFields))
                  = StructFields(t.name)

-----------------------------------------------------------------------------
(* Where a reader stands when deserialize_inner returns.                    *)

\* from_str has returned a value for a document, all of whose elements are
\* closed, with a root element of the target type that is not self-closing.
ReturnedForElement ==
    /\ HasReturned
    /\ outcome.ok
    /\ origin.kind = "text"
    /\ origin.edit \in {"none", "drop", "drop_nested", "repeat", "insert", "nest_whole"}
    /\ origin.xml[RootOpen(origin.xml)].name \in TagsOf(outcome.target)
    /\ origin.xml[ElementEnd(origin.xml, RootOpen(origin.xml))].k = "close"

\* The events of the document that follow the End event of its root element.
AfterRoot ==
    LET upto == Tokenise(SubSeq(origin.xml, 1, ElementEnd(origin.xml, RootOpen(origin.xml))))
    IN  SubSeq(Document, Len(upto) + 1, Len(Document))

\* C27: when deserialize_inner returns a value for an element that is not
\* self-closing, the last event it consumed is the End event that closes
\* that very element, also when the element holds descendants of its own tag
\* name that are not dispatched as children: the reader is left with the
\* events that follow the element.
C27_BalancedConsumption ==
    ReturnedForElement => reader.events = AfterRoot

\* It holds of the elements that hold no element of their own name.
BalancedUnnested ==
    (ReturnedForElement /\ origin.edit # "nest_whole") => reader.events = AfterRoot

-----------------------------------------------------------------------------
(* includes/packages/opc_core_properties.rs: the reader of docProps/core.xml *)

MaxCoreChildren == 2    \* child elements of a cp:coreProperties that is read

CoreTag == [pfx |-> "cp", loc |-> "coreProperties"]

CoreBareTag == [pfx |-> "", loc |-> "coreProperties"]

nCoreProperties == TypeName("", "", "CoreProperties")

\* The arms of the read loop, in the order of the source: the tag each
\* matches and the field it assigns.
CoreChildren ==
    << [tag |-> [pfx |-> "cp", loc |-> "category"], field |-> "category"],
       [tag |-> [pfx |-> "cp", loc |-> "contentStatus"], field |-> "content_status"],
       [tag |-> [pfx |-> "dcterms", loc |-> "created"], field |-> "created"],
       [tag |-> [pfx |-> "dc", loc |-> "creator"], field |-> "creator"],
       [tag |-> [pfx |-> "dc", loc |-> "description"], field |-> "description"],
       [tag |-> [pfx |-> "dc", loc |-> "identifier"], field |-> "identifier"],
       [tag |-> [pfx |-> "cp", loc |-> "keywords"], field |-> "keywords"],
       [tag |-> [pfx |-> "dc", loc |-> "language"], field |-> "language"],
       [tag |-> [pfx |-> "cp", loc |-> "lastModifiedBy"], field |-> "last_modified_by"],
       [tag |-> [pfx |-> "cp", loc |-> "lastPrinted"], field |-> "last_printed"],
       [tag |-> [pfx |-> "dcterms", loc |-> "modified"], field |-> "modified"],
       [tag |-> [pfx |-> "cp", loc |-> "revision"], field |-> "revision"],
       [tag |-> [pfx |-> "dc", loc |-> "subject"], field |-> "subject"],
       [tag |-> [pfx |-> "dc", loc |-> "title"], field |-> "title"],
       [tag |-> [pfx |-> "cp", loc |-> "version"], field |-> "version"] >>

CoreFields ==
    { XmlnsFields[i].name : i \in 1..3 }
    \cup { PackageField(CoreChildren[i].field) : i \in DOMAIN CoreChildren }

\* The `for attr in e.attributes()` loop of CoreProperties::deserialize_inner.
RECURSIVE core_attr_match(_, _)
core_attr_match(f, attrs) ==
    IF attrs = <<>> THEN [ok |-> TRUE, f |-> f]
    ELSE LET attr == Head(attrs)
             value == unescape(attr.value)
             slot == IF attr.key = XmlnsKey THEN XmlnsFields[1].name
                     ELSE IF attr.key = McIgnorableKey THEN XmlnsFields[3].name
                     ELSE IF attr.key.pfx = "xmlns" THEN XmlnsFields[2].name
                     ELSE NoName
         IN  IF slot = NoName THEN core_attr_match(f, Tail(attrs))
             ELSE IF ~value.ok THEN [ok |-> FALSE, f |-> f]
             ELSE IF slot = XmlnsFields[2].name
             THEN core_attr_match(
                      [f EXCEPT ![slot] = { kv \in @ : kv[1] # attr.key.loc }
                                          \cup { <<attr.key.loc, value.s>> }],
                      Tail(attrs))
             ELSE core_attr_match([f EXCEPT ![slot] = <<value.s>>], Tail(attrs))

\* xml_reader.next() moves past one event; at the end of the input it keeps
\* yielding Eof.
AfterNext(events) == IF events = <<>> THEN <<>> ELSE Tail(events)

\* The loop of CoreProperties::deserialize_inner: the arm of a recognized
\* Start or Empty event reads the next event, keeps it if it is a Text
\* event, and reads one event more.
RECURSIVE core_read_loop(_, _)
core_read_loop(f, events) ==
    IF events = <<>>
    THEN [ok |-> FALSE, f |-> f, err |-> UnknownError, rest |-> <<>>]
    ELSE LET ev == Head(events)
             hits == { i \in DOMAIN CoreChildren : CoreChildren[i].tag = ev.name }
         IN  IF ev.k \in {"Start", "Empty"}
             THEN IF hits = {}
                  THEN [ok |-> FALSE, f |-> f,
                        err |-> CommonError(PackageField("coreProperties")),
                        rest |-> Tail(events)]
                  ELSE LET field == PackageField(CoreChildren[CHOOSE i \in hits : TRUE].field)
                           first == Tail(events)
                       IN  core_read_loop(
                               IF first # <<>> /\ Head(first).k = "Text"
                               THEN [f EXCEPT ![field] = <<Head(first).text>>]
                               ELSE f,
                               AfterNext(AfterNext(first)))
             ELSE IF ev.k = "End" /\ ev.name \in {CoreTag, CoreBareTag}
             THEN [ok |-> TRUE, f |-> f, err |-> NoError, rest |-> Tail(events)]
             ELSE core_read_loop(f, Tail(events))

core_deserialize_inner(events, xml_event) ==
    LET start == expect_event_start(events, xml_event, CoreTag, CoreBareTag)
    IN  IF ~start.ok THEN Failed(start.err, start.rest)
        ELSE LET f0 == [n \in CoreFields |-> IF n = XmlnsFields[2].name THEN {} ELSE <<>>]
                 attrs == core_attr_match(f0, start.e.attrs)
             IN  IF ~attrs.ok THEN Failed(QuickXmlError, start.rest)
                 ELSE LET body == IF ~start.empty_tag
                                  THEN core_read_loop(attrs.f, start.rest)
                                  ELSE [ok |-> TRUE, f |-> attrs.f, err |-> NoError,
                                        rest |-> start.rest]
                      IN  IF ~body.ok THEN Failed(body.err, body.rest)
                          ELSE Returned([type |-> nCoreProperties, f |-> body.f], body.rest)

\* ---- the documents read ----

\* A child element of cp:coreProperties: its arm, and its content: text, or
\* none between a start and an end tag ("pair"), or none in a self-closing
\* tag ("empty").
CoreElement(arm, form, text) == [arm |-> arm, form |-> form, text |-> text]

CoreElements ==
    { CoreElement(arm, "text", text) : arm \in {1, 3, 14}, text \in { <<"a">>, <<"b">> } }
    \cup { CoreElement(arm, form, <<>>) : arm \in {1, 3, 14}, form \in {"pair", "empty"} }

CoreElementXml(el) ==
    LET tag == CoreChildren[el.arm].tag
    IN  CASE el.form = "text" ->
                 << Chunk("open", tag, <<>>), Chunk("gt", NoName, <<>>),
                    Chunk("chars", NoName, el.text), Chunk("close", tag, <<>>) >>
          [] el.form = "pair" ->
                 << Chunk("open", tag, <<>>), Chunk("gt", NoName, <<>>),
                    Chunk("close", tag, <<>>) >>
          [] OTHER -> << Chunk("open", tag, <<>>), Chunk("sgt", NoName, <<>>) >>

CoreDocument(attrs, kids) ==
    XmlHeader
    \o <<Chunk("open", CoreTag, <<>>)>> \o attrs \o <<Chunk("gt", NoName, <<>>)>>
    \o Flatten([i \in DOMAIN kids |-> CoreElementXml(kids[i])])
    \o <<Chunk("close", CoreTag, <<>>)>>

\* A docProps/core.xml arrives.
ReceiveCore ==
    /\ origin = Idle
    /\ \E kids \in SeqsUpTo(CoreElements, MaxCoreChildren) :
         \E attrs \in { <<>>, <<Chunk("attr", [pfx |-> "xmlns", loc |-> "cp"], <<"urn:cp">>)>> } :
            origin' = [kind |-> "core", kids |-> kids, xml |-> CoreDocument(attrs, kids)]
    /\ UNCHANGED <<reader, outcome, pkgVars, genVars, valVars>>

\* CoreProperties::from_str(xml).
CoreFromStr ==
    /\ origin # Idle
    /\ outcome = Idle
    /\ LET r == core_deserialize_inner(Tokenise(origin.xml), <<>>)
       IN  /\ outcome' = [kind |-> "returned", target |-> nCoreProperties,
                          ok |-> r.ok, value |-> r.value, err |-> r.err]
           /\ reader' = [kind |-> "read", events |-> r.rest]
    /\ UNCHANGED <<origin, pkgVars, genVars, valVars>>

InitCore == IdlePkg /\ IdleGen /\ IdleCodec /\ IdleVal

NextCore == ReceiveCore \/ CoreFromStr

SpecCore == InitCore /\ [][NextCore]_vars

\* The text the document gives the field of an arm: that of its last
\* child element of that tag that carries text; <<>> if it has none.
CoreTextOf(kids, arm) ==
    LET with == { k \in DOMAIN kids : kids[k].arm = arm /\ kids[k].form = "text" }
    IN  IF with = {} THEN <<>>
        ELSE <<kids[CHOOSE k \in with : \A j \in with : j <= k].text>>

CoreRead == HasReturned /\ origin.kind = "core"

\* C28: when CoreProperties is deserialized, every recognized child element
\* that carries text sets its field to that text, whatever the other
\* children look like; a self-closing or empty recognized child leaves its
\* own field unset and neither makes the reader skip the text of the
\* following sibling nor consume the End event of cp:coreProperties.
C28_ChildIndependence ==
    CoreRead
        => /\ outcome.ok
           /\ \A i \in DOMAIN CoreChildren :
                 outcome.value.f[PackageField(CoreChildren[i].field)]
                     = CoreTextOf(origin.kids, i)
           /\ reader.events = <<>>

\* It holds of the documents all of whose child elements carry text.
CoreChildrenWithText ==
    (CoreRead /\ \A k \in DOMAIN origin.kids : origin.kids[k].form = "text")
        => /\ outcome.ok
           /\ \A i \in DOMAIN CoreChildren :
                 outcome.value.f[PackageField(CoreChildren[i].field)]
                     = CoreTextOf(origin.kids, i)
           /\ reader.events = <<>>

-----------------------------------------------------------------------------
(* resolve_zip_file_path on every path.                                     *)

MaxPathLen == 5     \* characters of a path that is normalised

PathChars == {"a", ".", "/"}

Paths == SeqsUpTo(PathChars, MaxPathLen)

\* resolve_zip_file_path(path) is called, and then called on its result.
ResolvePath ==
    /\ origin # Idle
    /\ outcome = Idle
    /\ outcome' = [kind |-> "path", path |-> resolve_zip_file_path(origin.path)]
    /\ UNCHANGED <<origin, reader, pkgVars, genVars, valVars>>

ResolveAgain ==
    /\ outcome # Idle
    /\ reader = Idle
    /\ reader' = [kind |-> "path", path |-> resolve_zip_file_path(outcome.path)]
    /\ UNCHANGED <<origin, outcome, pkgVars, genVars, valVars>>

InitPath ==
    /\ origin \in { [kind |-> "path", path |-> p] : p \in Paths }
    /\ reader = Idle
    /\ outcome = Idle
    /\ IdlePkg /\ IdleGen /\ IdleVal

NextPath == ResolvePath \/ ResolveAgain

SpecPath == InitPath /\ [][NextPath]_vars

Segments(p) == IF p = <<>> THEN <<>> ELSE SplitSlash(p)

\* No empty, "." or ".." segment; hence no "/" at either end.
Normalised(p) ==
    /\ \A i \in DOMAIN Segments(p) : Segments(p)[i] \notin { <<>>, <<".">>, <<".", ".">> }
    /\ p # <<>> => p[1] # "/" /\ p[Len(p)] # "/"

\* The segments a path leaves when it is followed from the archive root,
\* a ".." at the root leading nowhere.
RECURSIVE Followed(_, _)
Followed(segs, n) ==
    IF n = 0 THEN <<>>
    ELSE LET at == Followed(segs, n - 1)
             c == segs[n]
         IN  IF c \in { <<>>, <<".">> } THEN at
             ELSE IF c = <<".", ".">>
             THEN (IF at = <<>> THEN at ELSE SubSeq(at, 1, Len(at) - 1))
             ELSE Append(at, c)

\* C29: for every path resolve_zip_file_path returns a path with no empty,
\* "." or ".." segment and no leading or trailing "/"; applied to its own
\* result it returns that result; and the result names the place the path
\* leads to from the archive root when the ".." segments in excess of the
\* depth are discarded.
C29_PathNormalisation ==
    /\ (outcome # Idle /\ outcome.kind = "path")
          => /\ Normalised(outcome.path)
             /\ Segments(outcome.path)
                   = Followed(SplitSlash(origin.path), Len(SplitSlash(origin.path)))
    /\ (reader # Idle /\ reader.kind = "path") => reader.path = outcome.path

\* "../a/" has been normalised to "a", and "a" to itself.
C29_Witness ==
    /\ origin # Idle /\ origin.kind = "path"
    /\ origin.path = <<".", ".", "/", "a", "/">>
    /\ outcome # Idle /\ outcome.path = <<"a">>
    /\ reader # Idle /\ reader.path = <<"a">>

-----------------------------------------------------------------------------
(* gen_part_name_set and gen_type_name_set call by call, on every graph.    *)

MaxNodes == 2       \* parts or types of a graph that is traversed

NodeNames == <<"n1", "n2", "n3", "n4">>

Nodes == 1..MaxNodes

PartName(i) == NodeNames[i]

TypeNameOf(i) == TypeName(NodeNames[i], "w", NodeNames[i])

\* The edges of a graph as the `children` of node i, in ascending order;
\* an edge to a node of `data` is a data part reference.
RECURSIVE ChildList(_, _, _, _)
ChildList(kind, E, data, ij) ==
    IF ij[2] > MaxNodes THEN <<>>
    ELSE (IF ij \in E
          THEN IF kind = "part"
               THEN << [name |-> PartName(ij[2]), is_data_part_reference |-> ij[2] \in data] >>
               ELSE << [name |-> TypeNameOf(ij[2])] >>
          ELSE <<>>)
         \o ChildList(kind, E, data, <<ij[1], ij[2] + 1>>)

\* The parts (types) of a graph: node i with its children; the types of
\* `marked` are derived, the parts of `marked` referred to as data parts;
\* the last node is left out of the list when `dangling`.
NodeList(kind, E, marked, dangling) ==
    [i \in 1..(IF dangling THEN MaxNodes - 1 ELSE MaxNodes) |->
        IF kind = "part"
        THEN [name |-> PartName(i), children |-> ChildList(kind, E, marked, <<i, 1>>)]
        ELSE [name |-> TypeNameOf(i), children |-> ChildList(kind, E, marked, <<i, 1>>),
              is_derived |-> i \in marked]]

Graphs ==
    { [kind |-> kind, list |-> NodeList(kind, E, marked, dangling),
       root |-> IF kind = "part" THEN PartName(1) ELSE TypeNameOf(1)] :
          kind \in {"part", "type"}, E \in SUBSET (Nodes \X Nodes),
          marked \in SUBSET Nodes, dangling \in BOOLEAN }

\* Calls nested deeper than any traversal of MaxNodes nodes needs overflow
\* the stack.
MaxDepth == MaxNodes + 2

\* A traversal: the visited set, and for each call that has not returned the
\* children it has still to visit (the first frame holds the root, which the
\* caller passes); `expanded` counts for each name the calls that looked it
\* up and went through its children.
Traversal(set, stack, expanded, status) ==
    [kind |-> "visit", set |-> set, stack |-> stack, expanded |-> expanded,
     status |-> status]

Visiting == genContext # Idle /\ genContext.kind = "visit" /\ genContext.status = "running"

Top == genContext.stack[Len(genContext.stack)]

Below == SubSeq(genContext.stack, 1, Len(genContext.stack) - 1)

\* The frame that makes a call goes on with its next child; the call pushes
\* its own frame.
Enter(set, name, children) ==
    IF Len(genContext.stack) >= MaxDepth
    THEN Traversal(set, <<>>, genContext.expanded, "overflow")
    ELSE Traversal(set, Append(Append(Below, Tail(Top)), children),
                   genContext.expanded \cup {<<name, Cardinality(genContext.expanded)>>},
                   "running")

\* gen_part_name_set(part_name_set, part_name, part_name_part_map) is called
\* for the next child (or the root).
CallGenPartNameSet ==
    /\ Visiting
    /\ genInput.kind = "part"
    /\ Top # <<>>
    /\ LET part_name == Head(Top)
       IN  genContext' =
             IF ~Inserted(genContext.set, part_name)
             THEN Traversal(genContext.set, Append(Below, Tail(Top)),
                            genContext.expanded, "running")
             ELSE IF ~HasNamed(genInput.list, part_name)
             THEN Traversal(genContext.set \cup {part_name}, <<>>,
                            genContext.expanded, "panic")
             ELSE LET part == Named(genInput.list, part_name)
                      visited == SelectSeq(part.children,
                                     LAMBDA c : ~c.is_data_part_reference)
                  IN  Enter(genContext.set \cup {part_name}, part_name,
                            [i \in DOMAIN visited |-> visited[i].name])
    /\ UNCHANGED <<genInput, genOut, pkgVars, codecVars, valVars>>

\* gen_type_name_set(type_name_set, type_name, type_name_type_map) is called
\* for the next child (or the root).
CallGenTypeNameSet ==
    /\ Visiting
    /\ genInput.kind = "type"
    /\ Top # <<>>
    /\ LET type_name == Head(Top)
       IN  genContext' =
             IF ~Inserted(genContext.set, type_name)
             THEN Traversal(genContext.set, Append(Below, Tail(Top)),
                            genContext.expanded, "running")
             ELSE IF ~HasNamed(genInput.list, type_name)
             THEN Traversal(genContext.set \cup {type_name}, <<>>,
                            genContext.expanded, "err")
             ELSE LET schema_type == Named(genInput.list, type_name)
                  IN  Enter(genContext.set \cup {type_name}
                            \cup (IF schema_type.is_derived
                                  THEN {BaseTypeName(split_name(type_name)[1])}
                                  ELSE {}),
                            type_name,
                            [i \in DOMAIN schema_type.children |->
                                schema_type.children[i].name])
    /\ UNCHANGED <<genInput, genOut, pkgVars, codecVars, valVars>>

\* A call has gone through its children and returns Ok(()).
ReturnOk ==
    /\ Visiting
    /\ Top = <<>>
    /\ genContext' = Traversal(genContext.set, Below, genContext.expanded,
                               IF Below = <<>> THEN "ok" ELSE "running")
    /\ UNCHANGED <<genInput, genOut, pkgVars, codecVars, valVars>>

InitVisit ==
    /\ genInput \in Graphs
    /\ genContext = Traversal({}, << <<genInput.root>> >>, {}, "running")
    /\ genOut = Idle
    /\ IdlePkg /\ IdleCodec /\ IdleVal

NextVisit == CallGenPartNameSet \/ CallGenTypeNameSet \/ ReturnOk

SpecVisit == InitVisit /\ [][NextVisit]_vars

\* A call that can go on does go on.
SpecVisitFair == SpecVisit /\ WF_vars(NextVisit)

\* The traversal has come to its end: it returned Ok or Err, or it panicked
\* on a part that is not in the map.
Terminated == genContext.status \in {"ok", "err", "panic"}

\* No name was expanded by two calls.
ExpandedOnce ==
    \A x, y \in genContext.expanded : x[1] = y[1] => x = y

\* The set the traversal has built is that of the recursive definition.
SameAsRecursion ==
    Terminated
        => LET r == IF genInput.kind = "part"
                    THEN gen_part_name_set([ok |-> TRUE, set |-> {}], genInput.root,
                                           genInput.list)
                    ELSE gen_type_name_set([ok |-> TRUE, set |-> {}], genInput.root,
                                           genInput.list)
           IN  /\ r.set = genContext.set
               /\ r.ok <=> genContext.status = "ok"

\* C30: gen_part_name_set and gen_type_name_set terminate on every finite
\* part or type graph, cycles and mutual recursion included, and no node is
\* expanded more than once: the children of a node are gone through only by
\* the call that inserts the node into the visited set.
C30_TraversalTerminates ==
    /\ <>Terminated
    /\ [](ExpandedOnce /\ genContext.status # "overflow")

\* The traversal of a graph in which the root and another node refer to each
\* other, and the root to itself, has returned with both expanded.
C30_Witness ==
    /\ genContext.status = "ok"
    /\ \E i \in DOMAIN genInput.list :
          /\ genInput.list[i].name # genInput.root
          /\ \E c \in Range(genInput.list[i].children) : c.name = genInput.root
          /\ \E c \in Range(Named(genInput.list, genInput.root).children) :
                c.name = genInput.list[i].name
          /\ \E x \in genContext.expanded : x[1] = genInput.list[i].name
    /\ \E c \in Range(Named(genInput.list, genInput.root).children) :
          c.name = genInput.root
    /\ \E x \in genContext.expanded : x[1] = genInput.root

====
